---- MODULE Spec2Model ----
(***************************************************************************)
(* A model of dicom_query_compare.py: the SeriesStabilityTracker, the      *)
(* comparator compare_series_and_filter, the executor                      *)
(* transfer_series_sequential, the completion monitor                      *)
(* wait_for_series_completion and the continuous loop of main.             *)
(*                                                                         *)
(* Four specifications share the variables below:                          *)
(*   SpecTracker  the tracker's operations called in any order             *)
(*   SpecMonitor  one run of wait_for_series_completion over any polls     *)
(*   SpecCompare  one call of compare_series_and_filter on any inventory   *)
(*   Spec         the continuous-mode loop of main                         *)
(* Each specification leaves the variables of the others at their idle     *)
(* values.                                                                 *)
(***************************************************************************)
EXTENDS Integers, Sequences, FiniteSets, TLC

VARIABLES
  series_states,  \* SeriesStabilityTracker.series_states: key -> record
  now,            \* the wall clock read by datetime.now(), in hours
  log,            \* history: the tracker calls made so far, with their results
  mon,            \* the locals of wait_for_series_completion, and its history
  remote_inv,     \* the remote node's archive: study -> list of series
  local_inv,      \* the local node's archive: study -> list of series
  args,           \* the run's options: tracker, max_images, all_series, studies
  transfer_list,  \* the list compare_series_and_filter returned
  runs,           \* history: the number of comparator calls made
  tracker_file,   \* the persisted stability state, series_stability.json
  cycle_count,    \* main: cycle_count
  pc,             \* main: where the process is
  idx,            \* transfer_series_sequential: the position i in transfer_list
  stats,          \* transfer_series_sequential: its counters; main: the last sleep
  xfer,           \* transfer_series_sequential: the strategy and requests of candidate i
  hist            \* history: what the cycles observed, requested and counted

trackerVars == <<series_states, now, log>>
cmpVars == <<remote_inv, local_inv, args, transfer_list, runs>>
sysVars == <<tracker_file, cycle_count, pc, idx, stats, xfer, hist>>

vars == <<series_states, now, log, mon, remote_inv, local_inv, args, transfer_list, runs, tracker_file, cycle_count, pc, idx, stats, xfer, hist>>

\* A stored timestamp: datetime.isoformat() of clock value t, a string that
\* datetime.fromisoformat rejects, or JSON null / Python None.
Iso(t) == [kind |-> "iso", t |-> t]
BadStamp == [kind |-> "bad", t |-> 0]
None == [kind |-> "null", t |-> 0]

\* An Optional[int] argument: None, or a number.
Nil == <<>>
Opt(n) == <<n>>

EmptyMap == [k \in {} |-> {}]

\* dict without one key (del d[key]).
Without(d, key) == [k \in DOMAIN d \ {key} |-> d[k]]

\* dict with d[key] = value.
With(d, key, value) == [k \in DOMAIN d \cup {key} |-> IF k = key THEN value ELSE d[k]]

(***************************************************************************)
(* SeriesStabilityTracker                                                  *)
(***************************************************************************)

max_age_hours == 48

\* A key that leaves the series out.
make_key_without_series(remote_node_name, study_uid, series_uid) ==
  remote_node_name \o "|" \o study_uid

\* f"{remote_node_name}|{study_uid}|{series_uid}"
make_key(remote_node_name, study_uid, series_uid) ==
  remote_node_name \o "|" \o study_uid \o "|" \o series_uid

\* dict.get(name, default) on a record: the default only when the key is absent.
dict_get(rec, name, default) ==
  IF name \in DOMAIN rec THEN rec[name] ELSE default

\* The record written on a first sighting and on a changed count.
fresh_state(image_count, now_) ==
  [image_count |-> image_count, last_seen |-> Iso(now_), stable_since |-> None]

\* update_series that keeps the old record when the count has changed.
update_series_keeps_old_count(states, remote_node_name, study_uid, series_uid, image_count, now_) ==
  LET key == make_key(remote_node_name, study_uid, series_uid) IN
  IF key \in DOMAIN states
  THEN [states |-> states, ret |-> states[key].image_count = image_count]
  ELSE [states |-> With(states, key, fresh_state(image_count, now_)),
        ret |-> FALSE]

\* update_series that reports a first sighting as stable.
update_series_first_stable(states, remote_node_name, study_uid, series_uid, image_count, now_) ==
  LET key == make_key(remote_node_name, study_uid, series_uid) IN
  [states |-> With(states, key, fresh_state(image_count, now_)),
   ret |-> key \notin DOMAIN states \/ states[key].image_count = image_count]

\* update_series: the new series_states and the returned is_stable.
update_series(states, remote_node_name, study_uid, series_uid, image_count, now_) ==
  LET key == make_key(remote_node_name, study_uid, series_uid) IN
  IF key \in DOMAIN states
  THEN LET old_count == states[key].image_count IN
       IF old_count = image_count
       THEN [states |->
               With(states, key,
                    [k \in DOMAIN states[key] \cup {"last_seen", "stable_since"} |->
                       CASE k = "last_seen" -> Iso(now_)
                         [] k = "stable_since" ->
                              dict_get(states[key], "stable_since", Iso(now_))
                         [] OTHER -> states[key][k]]),
             ret |-> TRUE]
       ELSE [states |-> With(states, key, fresh_state(image_count, now_)),
             ret |-> FALSE]
  ELSE [states |-> With(states, key, fresh_state(image_count, now_)),
        ret |-> FALSE]

\* del d[key]: raises KeyError when the key is absent.
del_key(d, key) ==
  [states |-> IF key \in DOMAIN d THEN Without(d, key) ELSE d,
   raised |-> key \notin DOMAIN d]

\* mark_transferred without the membership test.
mark_transferred_unguarded(states, remote_node_name, study_uid, series_uid) ==
  del_key(states, make_key(remote_node_name, study_uid, series_uid))

\* mark_transferred that leaves the record in place.
mark_transferred_keeps(states, remote_node_name, study_uid, series_uid) ==
  [states |-> states, raised |-> FALSE]

\* mark_transferred: the new series_states, and whether the call raised.
mark_transferred(states, remote_node_name, study_uid, series_uid) ==
  LET key == make_key(remote_node_name, study_uid, series_uid) IN
  IF key \in DOMAIN states THEN del_key(states, key)
  ELSE [states |-> states, raised |-> FALSE]

\* cleanup_old_entries: the keys collected in keys_to_remove. A last_seen that
\* is missing (KeyError) or unparsable (ValueError) is collected as well.
keys_to_remove(states, max_age, now_) ==
  {key \in DOMAIN states :
     \/ "last_seen" \notin DOMAIN states[key]
     \/ states[key].last_seen.kind = "bad"
     \/ /\ states[key].last_seen.kind = "iso"
        /\ now_ - states[key].last_seen.t > max_age}

\* cleanup_old_entries: a last_seen that is no string at all makes
\* fromisoformat raise TypeError, which the except clause does not catch; the
\* loop is then left before anything is deleted.
cleanup_raises(states) ==
  \E key \in DOMAIN states :
     "last_seen" \in DOMAIN states[key] /\ states[key].last_seen.kind = "null"

cleanup_old_entries(states, max_age, now_) ==
  IF cleanup_raises(states) THEN states
  ELSE [k \in DOMAIN states \ keys_to_remove(states, max_age, now_) |-> states[k]]

(***************************************************************************)
(* compare_series_and_filter                                               *)
(***************************************************************************)

\* A DicomSeries, as far as the comparison reads it.
DicomSeries(series_uid, num_images) ==
  [series_uid |-> series_uid, num_images |-> num_images]

\* client.query_series(node, study_uid): the series the node lists for the study.
query_series(inv, study_uid) ==
  IF study_uid \in DOMAIN inv THEN inv[study_uid] ELSE <<>>

\* local_series_dict.get(series_uid, 0), the dict being built from the list
\* (a later entry of one uid replaces an earlier one).
local_series_dict_get(local_series_list, series_uid) ==
  LET found == {i \in 1..Len(local_series_list) :
                local_series_list[i].series_uid = series_uid} IN
  IF found = {} THEN 0
  ELSE local_series_list[CHOOSE i \in found : \A j \in found : j <= i].num_images

\* "Skip if series is complete", with > for >=.
is_complete_strict(local_image_count, num_images) == local_image_count > num_images

\* "Skip if series is complete"
is_complete(local_image_count, num_images) == local_image_count >= num_images

\* "Skip if series has no images"
is_empty(num_images) == num_images <= 0

\* The few-missing skip without the size condition.
few_missing_any_size(missing_images, num_images) == missing_images <= 3

\* The skip left out.
few_missing_never(missing_images, num_images) == FALSE

\* The rule for fewer than 3 missing images.
few_missing_below_three(missing_images, num_images) ==
  missing_images < 3 /\ num_images > 10

\* The skip for series of more than 20 images only.
few_missing_large_only(missing_images, num_images) ==
  missing_images <= 3 /\ num_images > 20

\* The skip of a single missing image, whatever the size of the series.
few_missing_single_only(missing_images, num_images) == missing_images < 2

\* "Skip if only 1-3 images are missing from larger series (>10 images)"
few_missing(missing_images, num_images) == missing_images <= 3 /\ num_images > 10

\* Without a bound, only series of at most 10 images.
should_transfer_small_only(max_images, num_images) ==
  IF max_images # Nil THEN num_images <= max_images[1] ELSE num_images <= 10

\* No bound applied.
should_transfer_unbounded(max_images, num_images) == TRUE

\* The bound of the bounded mode taken as exclusive.
should_transfer_below(max_images, num_images) ==
  IF max_images # Nil THEN num_images < max_images[1] ELSE TRUE

\* "Apply filtering based on selection criteria"
should_transfer(max_images, num_images) ==
  IF max_images # Nil THEN num_images <= max_images[1] ELSE TRUE

\* The body of "for series in remote_series_list" for one series: acc holds
\* the tracker's series_states and the transfer_list built so far, and, as
\* history, the update_series calls made with their results.
compare_one_series(acc, study_uid, series, local_series_list, remote_node_name, tracker, max_images, now_) ==
  LET local_image_count == local_series_dict_get(local_series_list, series.series_uid)
      missing_images == series.num_images - local_image_count
      upd == update_series(acc.states, remote_node_name, study_uid,
                           series.series_uid, series.num_images, now_)
  IN
  IF is_complete(local_image_count, series.num_images) THEN acc
  ELSE IF is_empty(series.num_images) THEN acc
  ELSE IF few_missing(missing_images, series.num_images) THEN acc
  ELSE LET seen == IF tracker
                   THEN [acc EXCEPT !.states = upd.states,
                                    !.calls = Append(@, [study |-> study_uid,
                                                         series |-> series.series_uid,
                                                         count |-> series.num_images,
                                                         had |-> make_key(remote_node_name, study_uid, series.series_uid) \in DOMAIN acc.states,
                                                         ret |-> upd.ret])]
                   ELSE acc
       IN
       IF tracker /\ ~upd.ret THEN seen
       ELSE IF should_transfer(max_images, series.num_images)
            THEN [seen EXCEPT !.transfer_list =
                    Append(@, <<study_uid, series, local_image_count>>)]
            ELSE seen

RECURSIVE compare_series_loop(_, _, _, _, _, _, _, _, _)
\* "for series in remote_series_list", from index i on.
compare_series_loop(acc, i, study_uid, remote_series_list, local_series_list, remote_node_name, tracker, max_images, now_) ==
  IF i > Len(remote_series_list) THEN acc
  ELSE compare_series_loop(
         compare_one_series(acc, study_uid, remote_series_list[i], local_series_list,
                            remote_node_name, tracker, max_images, now_),
         i + 1, study_uid, remote_series_list, local_series_list,
         remote_node_name, tracker, max_images, now_)

RECURSIVE compare_study_loop(_, _, _, _, _, _, _, _, _)
\* "for i, study in enumerate(studies, 1)", from index j on. A study whose
\* remote query returns nothing is skipped before the local node is queried.
compare_study_loop(acc, j, studies, remote, local, remote_node_name, tracker, max_images, now_) ==
  IF j > Len(studies) THEN acc
  ELSE LET study_uid == studies[j]
           remote_series_list == query_series(remote, study_uid)
           local_series_list == query_series(local, study_uid)
           next == IF remote_series_list = <<>> THEN acc
                   ELSE compare_series_loop(acc, 1, study_uid, remote_series_list,
                                            local_series_list, remote_node_name,
                                            tracker, max_images, now_)
       IN compare_study_loop(next, j + 1, studies, remote, local, remote_node_name,
                             tracker, max_images, now_)

\* compare_series_and_filter: the returned transfer_list, the tracker's
\* series_states after the call and the update_series calls it made. tracker is FALSE for stability_tracker=None.
\* all_series is accepted and never read.
compare_series_and_filter(studies, remote, local, remote_node_name, states, tracker, max_images, all_series, now_) ==
  compare_study_loop([states |-> states, transfer_list |-> <<>>, calls |-> <<>>], 1, studies,
                     remote, local, remote_node_name, tracker, max_images, now_)

(***************************************************************************)
(* wait_for_series_completion. Time is counted in half seconds, so that    *)
(* check_interval = 1.5 s is 3 ticks and timeout = 60 s is 120 ticks.      *)
(* One step is one pass of the while loop: the loop test, the query of the *)
(* local node (query_time ticks, returning current_count), the tests, and  *)
(* the sleep. polls, sleeps, run and changing are history: the number of    *)
(* queries made, of sleeps taken, and of latest polls that returned one    *)
(* count, and whether every poll so far differed from the reading before.  *)
(***************************************************************************)

timeout == 120
check_interval == 3

MonIdle ==
  [pc |-> "idle", expected_images |-> 0, elapsed |-> 0, last_count |-> 0,
   stable_count |-> 0, current_count |-> 0, result |-> "none",
   polls |-> 0, sleeps |-> 0, run |-> 0, changing |-> TRUE]

\* The locals at entry: start_time = time.time(), last_count = 0, stable_count = 0.
wait_start(expected_images) ==
  [MonIdle EXCEPT !.pc = "loop", !.expected_images = expected_images]

\* The history of a pass that polled current_count.
Polled(m, current_count) ==
  [m EXCEPT !.polls = @ + 1,
            !.run = IF m.polls > 0 /\ current_count = m.current_count THEN @ + 1 ELSE 1,
            !.changing = @ /\ current_count # m.last_count,
            !.current_count = current_count]

Finish(m, result) == [m EXCEPT !.pc = "done", !.result = result]

\* The sleep with the clock standing still.
Sleep_without_time(m, stable_count, query_time) ==
  [m EXCEPT !.stable_count = stable_count,
            !.last_count = m.current_count,
            !.sleeps = @ + 1]

\* The sleep at the end of a pass, reached with last_count = current_count.
Sleep(m, stable_count, query_time) ==
  [m EXCEPT !.stable_count = stable_count,
            !.last_count = m.current_count,
            !.elapsed = @ + query_time + check_interval,
            !.sleeps = @ + 1]

\* The loop body testing current_count > expected_images.
wait_pass_strict(m0, current_count, query_time) ==
  LET m == Polled(m0, current_count) IN
  IF current_count > m.expected_images
  THEN Finish(m, "complete")
  ELSE IF current_count = m.last_count
       THEN IF m.stable_count + 1 >= 3
            THEN IF current_count > 0
                 THEN Finish([m EXCEPT !.stable_count = @ + 1], "partial")
                 ELSE Finish([m EXCEPT !.stable_count = @ + 1], "no_images")
            ELSE Sleep(m, m.stable_count + 1, query_time)
       ELSE Sleep(m, 0, query_time)

\* The loop body without the reset of stable_count on a changed count.
wait_pass_no_reset(m0, current_count, query_time) ==
  LET m == Polled(m0, current_count) IN
  IF current_count >= m.expected_images
  THEN Finish(m, "complete")
  ELSE IF current_count = m.last_count
       THEN IF m.stable_count + 1 >= 3
            THEN IF current_count > 0
                 THEN Finish([m EXCEPT !.stable_count = @ + 1], "partial")
                 ELSE Finish([m EXCEPT !.stable_count = @ + 1], "no_images")
            ELSE Sleep(m, m.stable_count + 1, query_time)
       ELSE Sleep(m, m.stable_count, query_time)

\* One pass of the loop body, entered with time.time() - start_time < timeout.
wait_pass(m0, current_count, query_time) ==
  LET m == Polled(m0, current_count) IN
  IF current_count >= m.expected_images
  THEN Finish(m, "complete")
  ELSE IF current_count = m.last_count
       THEN IF m.stable_count + 1 >= 3
            THEN IF current_count > 0
                 THEN Finish([m EXCEPT !.stable_count = @ + 1], "partial")
                 ELSE Finish([m EXCEPT !.stable_count = @ + 1], "no_images")
            ELSE Sleep(m, m.stable_count + 1, query_time)
       ELSE Sleep(m, 0, query_time)

\* The loop test failing: "Timeout after ...", return False.
wait_timed_out(m) == Finish(m, "timeout")

\* The value wait_for_series_completion returns.
wait_returns(m) == m.result \in {"complete", "partial"}

(***************************************************************************)
(* wait_for_series_completion run to its end in one step. The polls follow *)
(* a script: from the count local_count the local node holds when the wait *)
(* starts, the images arrive at once ("all"), never ("nothing"), all at    *)
(* the third poll ("late"), or one more at every poll ("trickle").         *)
(***************************************************************************)

ScriptKinds == {"all", "nothing", "late", "trickle"}

ScriptCount(kind, local_count, expected_images, n) ==
  CASE kind = "all" -> expected_images
    [] kind = "nothing" -> local_count
    [] kind = "late" -> IF n < 3 THEN local_count ELSE expected_images
    [] OTHER -> IF local_count + n < expected_images THEN local_count + n
                ELSE expected_images

RECURSIVE wait_loop(_, _, _, _)
\* "while time.time() - start_time < timeout"
wait_loop(m, kind, local_count, query_time) ==
  IF m.pc = "done" THEN m
  ELSE IF m.elapsed < timeout
       THEN wait_loop(wait_pass(m, ScriptCount(kind, local_count, m.expected_images,
                                               m.polls + 1), query_time),
                      kind, local_count, query_time)
       ELSE wait_timed_out(m)

wait_for_series_completion(expected_images, kind, local_count, query_time) ==
  wait_loop(wait_start(expected_images), kind, local_count, query_time)

(***************************************************************************)
(* SeriesStabilityTracker.load and save                                    *)
(***************************************************************************)

NoFile == [kind |-> "absent", data |-> EmptyMap]

\* Files that are not the JSON text save writes: cut short or otherwise not
\* JSON (json.JSONDecodeError), not openable for reading (IOError), and
\* holding bytes that are no text in the platform's encoding
\* (UnicodeDecodeError, which is neither of the two).
Truncated == [kind |-> "truncated", data |-> EmptyMap]
Unreadable == [kind |-> "unreadable", data |-> EmptyMap]
Undecodable == [kind |-> "undecodable", data |-> EmptyMap]

\* load: the exception leaves it when it is not one of those caught by
\* "except (json.JSONDecodeError, IOError)".
load_raises(file) == file.kind = "undecodable"

\* json.dump writing None as the string "None".
json_encode_none_as_string(field, v) ==
  IF field = "image_count" THEN [json |-> "number", text |-> v]
  ELSE IF v = None THEN [json |-> "string", text |-> BadStamp]
  ELSE [json |-> "string", text |-> v]

\* json.dump of one value of a record: the count as a number, None as null,
\* a timestamp as a string.
json_encode(field, v) ==
  IF field = "image_count" THEN [json |-> "number", text |-> v]
  ELSE IF v = None THEN [json |-> "null", text |-> 0]
  ELSE [json |-> "string", text |-> v]

\* json.load of one value: null as None, a number or a string as itself.
json_decode(j) == IF j.json = "null" THEN None ELSE j.text

\* json.dump(self.series_states, f) and json.load(f) of the whole dict.
json_dump(states) ==
  [k \in DOMAIN states |->
     [field \in DOMAIN states[k] |-> json_encode(field, states[k][field])]]
json_load(data) ==
  [k \in DOMAIN data |-> [field \in DOMAIN data[k] |-> json_decode(data[k][field])]]

\* load: series_states after __init__ set it to {} and load() ran.
load(file) == IF file.kind = "json" THEN json_load(file.data) ELSE EmptyMap

\* save: the file after json.dump of series_states.
save(states) == [kind |-> "json", data |-> json_dump(states)]

(***************************************************************************)
(* parse_day_keyword and the process's exit                                *)
(***************************************************************************)

\* The day specifiers of --download-day considered, and today's and
\* yesterday's date as strftime("%Y%m%d") gives them.
Days == {"today", "TODAY", "yesterday", "20231225", "2023-12-25", "someday"}
TodayDate == "20231226"
YesterdayDate == "20231225"

\* day_keyword.lower()
lower(day_keyword) == IF day_keyword = "TODAY" THEN "today" ELSE day_keyword

\* datetime.strptime(day_keyword, "%Y%m%d") succeeds.
strptime_ok(day_keyword) == day_keyword \in {"20231225"}

\* parse_day_keyword taking every specifier for a date.
parse_day_keyword_lenient(day_keyword) ==
  CASE lower(day_keyword) = "today" -> [raised |-> FALSE, date |-> TodayDate]
    [] lower(day_keyword) = "yesterday" -> [raised |-> FALSE, date |-> YesterdayDate]
    [] OTHER -> [raised |-> FALSE, date |-> day_keyword]

\* parse_day_keyword: the date of the single day, or ValueError raised.
parse_day_keyword(day_keyword) ==
  CASE lower(day_keyword) = "today" -> [raised |-> FALSE, date |-> TodayDate]
    [] lower(day_keyword) = "yesterday" -> [raised |-> FALSE, date |-> YesterdayDate]
    [] strptime_ok(day_keyword) -> [raised |-> FALSE, date |-> day_keyword]
    [] OTHER -> [raised |-> TRUE, date |-> ""]

\* The exit status of the process at the position where it ended: sys.exit(0)
\* after the one-shot pass or on Ctrl+C in the loop, sys.exit(1) on the
\* ValueError of the day specifier, and the interpreter's non-zero status when
\* an exception leaves main.
Terminal == {"exited", "failed", "crashed"}
exit_status(position) == IF position = "exited" THEN 0 ELSE 1

(***************************************************************************)
(* transfer_series_sequential                                              *)
(***************************************************************************)

\* The image-level strategy also at exactly 30% missing.
use_image_transfer_up_to_30(use_image_level, local_count, num_images) ==
  /\ use_image_level
  /\ local_count > 0
  /\ 10 * (num_images - local_count) <= 3 * num_images

\* "Use IMAGE-level if less than 30% is missing": missing / num_images < 0.3
use_image_transfer(use_image_level, local_count, num_images) ==
  /\ use_image_level
  /\ local_count > 0
  /\ 10 * (num_images - local_count) < 3 * num_images

\* The list of all remote images, present locally or not.
missing_image_uids_unfiltered(remote_image_uids, local_image_uid_set) ==
  remote_image_uids

\* [uid for uid in remote_image_uids if uid not in local_image_uid_set]
missing_image_uids(remote_image_uids, local_image_uid_set) ==
  SelectSeq(remote_image_uids, LAMBDA uid : uid \notin local_image_uid_set)

\* The executor's counters at entry.
stats_start ==
  [transferred_series |-> 0, transferred_images |-> 0, failed_series |-> 0, slept |-> 0]

\* The counting that leaves a failure uncounted.
count_result_success_only(st, success, num_images) ==
  IF success
  THEN [st EXCEPT !.transferred_series = @ + 1,
                  !.transferred_images = @ + num_images]
  ELSE st

\* The counting that adds a failed candidate's images to the total.
count_result_counts_failed_images(st, success, num_images) ==
  IF success
  THEN [st EXCEPT !.transferred_series = @ + 1,
                  !.transferred_images = @ + num_images]
  ELSE [st EXCEPT !.failed_series = @ + 1,
                  !.transferred_images = @ + num_images]

\* "if success: transferred_series += 1 ... else: failed_series += 1"
count_result(st, success, num_images) ==
  IF success
  THEN [st EXCEPT !.transferred_series = @ + 1,
                  !.transferred_images = @ + num_images]
  ELSE [st EXCEPT !.failed_series = @ + 1]

\* The two pauses exchanged.
sleep_seconds_swapped(transferred_images) == IF transferred_images < 30 THEN 1 ELSE 60

\* main: "Wait 60 seconds if fewer than 30 images were transferred"
sleep_seconds(transferred_images) == IF transferred_images < 30 THEN 60 ELSE 1

cleanup_period == 10

XferIdle ==
  [image |-> FALSE, missing |-> <<>>, j |-> 0, success_count |-> 0, in_flight |-> 0,
   requests |-> 0, remote_image_uids |-> <<>>, local_image_uids |-> {}, sent |-> <<>>]

HistIdle ==
  [observed |-> {}, selected |-> {}, requested |-> {}, processed |-> {},
   counted |-> {}, monitored |-> {}, removals |-> {}, done |-> {},
   queried |-> FALSE, restarts |-> 0, before |-> 0,
   remote_failed |-> {}, local_failed |-> {}]

\* The values the loop's variables keep in the other specifications.
SysIdle ==
  /\ tracker_file = NoFile
  /\ cycle_count = 0
  /\ pc = "off"
  /\ idx = 0
  /\ stats = stats_start
  /\ xfer = XferIdle
  /\ hist = HistIdle

(***************************************************************************)
(* SpecCompare: compare_series_and_filter called, up to MaxRuns times, on  *)
(* any inventory of the universe below, in every mode, with and without a  *)
(* tracker. Study A has the series S1 and S2, study B the series S3.       *)
(***************************************************************************)

MaxRuns == 2

CNode == "ct"
CStudies == <<"A", "B">>
Absent == 0 - 1
RemoteCounts == {Absent, 0, 5, 20, 50}
LocalCounts == {Absent, 4, 5, 17, 19, 20}
RemoteCountsB == {Absent, 20}
LocalCountsB == {Absent, 19, 20}
MaxImagesOptions == {Nil, Opt(10), Opt(20)}

\* The list a node returns for a study whose series have the counts given
\* (Absent: the node does not list the series).
SeriesList(uids, counts) ==
  LET present == SelectSeq(uids, LAMBDA u : counts[u] # Absent) IN
  [i \in 1..Len(present) |-> DicomSeries(present[i], counts[present[i]])]

Inventory(c1, c2, c3) ==
  [st \in {"A", "B"} |->
     IF st = "A" THEN SeriesList(<<"S1", "S2">>, [u \in {"S1", "S2"} |-> IF u = "S1" THEN c1 ELSE c2])
     ELSE SeriesList(<<"S3">>, [u \in {"S3"} |-> c3])]

Modes ==
  {[tracker |-> t, max_images |-> m, all_series |-> a, image_level |-> FALSE,
    studies |-> CStudies] :
     t \in BOOLEAN, m \in MaxImagesOptions, a \in BOOLEAN}

\* The values the comparator's variables keep in the other specifications.
CmpIdle ==
  /\ remote_inv = EmptyMap
  /\ local_inv = EmptyMap
  /\ args = EmptyMap
  /\ transfer_list = <<>>
  /\ runs = 0

CompareInit ==
  /\ series_states = EmptyMap
  /\ now = 0
  /\ log = <<>>
  /\ mon = MonIdle
  /\ \E c1 \in RemoteCounts, c2 \in RemoteCounts, c3 \in RemoteCountsB :
       remote_inv = Inventory(c1, c2, c3)
  /\ \E c1 \in LocalCounts, c2 \in LocalCounts, c3 \in LocalCountsB :
       local_inv = Inventory(c1, c2, c3)
  \* --max-images and --all-series are mutually exclusive
  /\ args \in {m \in Modes : ~(m.max_images # Nil /\ m.all_series)}
  /\ transfer_list = <<>>
  /\ runs = 0
  /\ SysIdle

CCompare ==
  /\ runs < MaxRuns
  /\ LET r == compare_series_and_filter(args.studies, remote_inv, local_inv, CNode,
                                        series_states, args.tracker,
                                        args.max_images, args.all_series, now) IN
       /\ transfer_list' = r.transfer_list
       /\ series_states' = r.states
  /\ runs' = runs + 1
  /\ UNCHANGED <<now, log, mon, remote_inv, local_inv, args, sysVars>>

NextCompare == CCompare

SpecCompare == CompareInit /\ [][NextCompare]_vars

(***************************************************************************)
(* SpecCompareFail: compare_series_and_filter while series queries fail.   *)
(* query_series catches every exception and returns the list built so far, *)
(* so a query that fails before its first response returns [], as a study  *)
(* without series does. hist records the studies whose query failed in the *)
(* latest call.                                                            *)
(***************************************************************************)

FailRemoteS1 == {20, 50}
FailRemoteS2 == {Absent, 5}
FailLocalS1 == {Absent, 5, 19, 20}
FailLocalS2 == {Absent, 4}

\* What query_series returns for each study when the queries of the studies
\* in failed raise: [] for those, the node's list for the others.
Answers(inv, failed) ==
  [st \in DOMAIN inv |-> IF st \in failed THEN <<>> ELSE inv[st]]

CompareFailInit ==
  /\ series_states = EmptyMap
  /\ now = 0
  /\ log = <<>>
  /\ mon = MonIdle
  /\ \E c1 \in FailRemoteS1, c2 \in FailRemoteS2, c3 \in RemoteCountsB :
       remote_inv = Inventory(c1, c2, c3)
  /\ \E c1 \in FailLocalS1, c2 \in FailLocalS2, c3 \in LocalCountsB :
       local_inv = Inventory(c1, c2, c3)
  /\ args \in {m \in Modes : m.max_images = Nil /\ ~m.all_series}
  /\ transfer_list = <<>>
  /\ runs = 0
  /\ SysIdle

CCompareFail ==
  /\ runs < MaxRuns
  /\ \E remote_failed \in SUBSET {"A", "B"}, local_failed \in SUBSET {"A", "B"} :
       LET r == compare_series_and_filter(args.studies,
                                          Answers(remote_inv, remote_failed),
                                          Answers(local_inv, local_failed), CNode,
                                          series_states, args.tracker,
                                          args.max_images, args.all_series, now) IN
       /\ transfer_list' = r.transfer_list
       /\ series_states' = r.states
       /\ hist' = [hist EXCEPT !.remote_failed = remote_failed,
                               !.local_failed = local_failed]
  /\ runs' = runs + 1
  /\ UNCHANGED <<now, log, mon, remote_inv, local_inv, args, tracker_file,
                 cycle_count, pc, idx, stats, xfer>>

NextCompareFail == CCompareFail

SpecCompareFail == CompareFailInit /\ [][NextCompareFail]_vars

(***************************************************************************)
(* SpecMonitor: one call of wait_for_series_completion, for any expected   *)
(* count and any sequence of poll results. The loop is weakly fair: the    *)
(* query and the sleep return.                                             *)
(***************************************************************************)

MaxImages == 3
MaxQueryTime == 1

MonitorInit ==
  /\ series_states = EmptyMap
  /\ now = 0
  /\ log = <<>>
  /\ \E e \in 1..MaxImages : mon = wait_start(e)
  /\ CmpIdle
  /\ SysIdle

MPoll(c, d) ==
  /\ mon.pc = "loop"
  /\ mon.elapsed < timeout
  /\ mon' = wait_pass(mon, c, d)
  /\ UNCHANGED <<trackerVars, cmpVars, sysVars>>

MTimeout ==
  /\ mon.pc = "loop"
  /\ ~(mon.elapsed < timeout)
  /\ mon' = wait_timed_out(mon)
  /\ UNCHANGED <<trackerVars, cmpVars, sysVars>>

NextMonitor ==
  \/ \E c \in 0..MaxImages, d \in 0..MaxQueryTime : MPoll(c, d)
  \/ MTimeout

SpecMonitor == MonitorInit /\ [][NextMonitor]_vars /\ WF_vars(NextMonitor)

(***************************************************************************)
(* Spec: main in continuous mode on one remote node with study A (series   *)
(* S1 and S2). The remote series may grow between cycles; the local node   *)
(* gains images only through the waits. Steps: a cycle up to the end of    *)
(* the comparison; for each candidate the choice of strategy, each move    *)
(* request and its return, the accounting and the wait; the save and the   *)
(* sleep; and the interrupt (Ctrl+C), at any point.                        *)
(***************************************************************************)

MaxCycles == 3
MaxRestarts == 1

SNode == "ct"
SStudy == "A"
SysRemoteS1 == {50, 100}
SysRemoteS2 == {Absent, 12}
SysLocalS1 == {Absent, 40, 70}
SysLocalS2 == {Absent, 10}
ImageUids == {"i1", "i2"}
ImageLists == {<<>>, <<"i1">>, <<"i1", "i2">>, <<"i2", "i1">>}

\* Continuous mode: the tracker is created.
SysModes ==
  {[tracker |-> TRUE, max_images |-> m, all_series |-> FALSE, image_level |-> il,
    studies |-> <<>>, download_day |-> Nil] : m \in {Nil, Opt(50)}, il \in BOOLEAN}

\* --download-day: no tracker; without --max-images, all_series is forced.
OneShotModes ==
  {[tracker |-> FALSE, max_images |-> m, all_series |-> (m = Nil), image_level |-> il,
    studies |-> <<>>, download_day |-> Opt(d)] :
     m \in {Nil, Opt(50)}, il \in BOOLEAN, d \in Days}

\* The count a node lists for a series (Absent when it does not list it).
CountIn(inv, study_uid, series_uid) ==
  LET l == query_series(inv, study_uid)
      found == {k \in 1..Len(l) : l[k].series_uid = series_uid} IN
  IF found = {} THEN Absent ELSE l[CHOOSE k \in found : TRUE].num_images

\* The remote archive a cycle may find: every series as it was, or grown.
RemoteGrowth(inv) ==
  {Inventory(c1, c2, Absent) :
     c1 \in {c \in SysRemoteS1 : c >= CountIn(inv, SStudy, "S1")},
     c2 \in {c \in SysRemoteS2 : c >= CountIn(inv, SStudy, "S2")}}

\* The local archive once it holds n images of a series.
SetLocal(inv, series_uid, n) ==
  Inventory(IF series_uid = "S1" THEN n ELSE CountIn(inv, SStudy, "S1"),
            IF series_uid = "S2" THEN n ELSE CountIn(inv, SStudy, "S2"),
            Absent)

\* The tracker file main finds: none, or one a previous run saved.
TrackerFiles ==
  {NoFile} \cup
  {save(With(EmptyMap, make_key(SNode, SStudy, "S1"), fresh_state(c, 0))) :
     c \in SysRemoteS1}

\* The tracker files that are corrupt or unreadable.
CorruptFiles == {Truncated, Unreadable, Undecodable}

Init ==
  /\ tracker_file \in TrackerFiles \cup CorruptFiles
  /\ args \in SysModes \cup OneShotModes
  /\ series_states = IF args.tracker THEN load(tracker_file) ELSE EmptyMap
  /\ now = 0
  /\ log = <<>>
  /\ mon = MonIdle
  /\ \E c1 \in SysRemoteS1, c2 \in SysRemoteS2 : remote_inv = Inventory(c1, c2, Absent)
  /\ \E c1 \in SysLocalS1, c2 \in SysLocalS2 : local_inv = Inventory(c1, c2, Absent)
  /\ transfer_list = <<>>
  /\ runs = 0
  /\ cycle_count = 0
  /\ pc = IF args.tracker /\ load_raises(tracker_file) THEN "crashed" ELSE "idle"
  /\ idx = 0
  /\ stats = stats_start
  /\ xfer = XferIdle
  /\ hist = HistIdle

Candidate == transfer_list[idx]
CandidateUid == Candidate[2].series_uid
Here == <<cycle_count, CandidateUid>>

\* "for i, ... in enumerate(transfer_list, 1)": on to the next candidate, or
\* out of the loop and back in main, at the save.
Advance(h) ==
  /\ idx' = idx + 1
  /\ pc' = IF idx + 1 > Len(transfer_list) THEN "save" ELSE "next"
  /\ hist' = IF idx + 1 > Len(transfer_list)
             THEN [h EXCEPT !.done = @ \cup {cycle_count}]
             ELSE h

\* The top of "while True" up to the call of transfer_series_sequential:
\* cleanup every 10th cycle, the study query and the comparison.
SyncCycle ==
  /\ pc = "idle"
  /\ args.download_day = Nil
  /\ hist.before + cycle_count < MaxCycles
  /\ \E rinv \in RemoteGrowth(remote_inv), remote_studies \in {<<>>, <<SStudy>>} :
       LET c == cycle_count + 1
           cleaning == c % cleanup_period = 0
           cleaned == IF cleaning
                      THEN cleanup_old_entries(series_states, max_age_hours, now)
                      ELSE series_states
           r == IF remote_studies = <<>>
                THEN [states |-> cleaned, transfer_list |-> <<>>, calls |-> <<>>]
                ELSE compare_series_and_filter(remote_studies, rinv, local_inv, SNode,
                                               cleaned, args.tracker, args.max_images,
                                               args.all_series, now)
       IN
       /\ remote_inv' = rinv
       /\ cycle_count' = c
       /\ IF cleaning /\ cleanup_raises(series_states)
          THEN /\ pc' = "crashed"
               /\ UNCHANGED <<series_states, transfer_list, hist>>
          ELSE /\ series_states' = r.states
               /\ transfer_list' = r.transfer_list
               /\ pc' = IF r.transfer_list = <<>> THEN "save" ELSE "next"
               /\ hist' = [hist EXCEPT
                    !.observed = @ \cup
                       {[cycle |-> c, series |-> r.calls[k].series,
                         count |-> r.calls[k].count, had |-> r.calls[k].had,
                         ret |-> r.calls[k].ret] :
                          k \in 1..Len(r.calls)},
                    !.selected = @ \cup
                       {<<c, r.transfer_list[k][2].series_uid>> :
                          k \in 1..Len(r.transfer_list)},
                    !.done = @ \cup (IF r.transfer_list = <<>> THEN {c} ELSE {}),
                    !.queried = TRUE,
                    !.removals = @ \cup
                       {[cycle |-> c, series |-> u, by |-> "cleanup"] :
                          u \in {u \in {"S1", "S2"} :
                                   /\ make_key(SNode, SStudy, u) \in DOMAIN series_states
                                   /\ make_key(SNode, SStudy, u) \notin DOMAIN cleaned}}]
       /\ idx' = 1
       /\ stats' = stats_start
  /\ UNCHANGED <<now, log, mon, local_inv, args, runs, tracker_file, xfer>>

\* The accounting that goes on to the next candidate without the wait.
Account_without_wait(success) ==
  /\ stats' = count_result(stats, success, Candidate[2].num_images)
  /\ IF success
     THEN /\ series_states' =
               mark_transferred(series_states, SNode, Candidate[1], CandidateUid).states
          /\ Advance([hist EXCEPT
               !.processed = @ \cup {Here},
               !.counted = @ \cup {Here},
               !.removals = @ \cup {[cycle |-> cycle_count, series |-> CandidateUid,
                                     by |-> "mark"]}])
     ELSE /\ Advance([hist EXCEPT !.processed = @ \cup {Here}])
          /\ UNCHANGED series_states

\* The accounting that deletes the record of a failed candidate as well.
Account_marking_failed(success) ==
  /\ stats' = count_result(stats, success, Candidate[2].num_images)
  /\ series_states' =
       IF args.tracker
       THEN mark_transferred(series_states, SNode, Candidate[1], CandidateUid).states
       ELSE series_states
  /\ IF success
     THEN /\ hist' = [hist EXCEPT
               !.processed = @ \cup {Here},
               !.counted = @ \cup {Here},
               !.removals = @ \cup
                  (IF args.tracker
                   THEN {[cycle |-> cycle_count, series |-> CandidateUid, by |-> "mark"]}
                   ELSE {})]
          /\ pc' = "monitor"
          /\ idx' = idx
     ELSE Advance([hist EXCEPT !.processed = @ \cup {Here}])

\* The accounting after the candidate's requests: "if success: ..." up to the
\* call of wait_for_series_completion, or "else: failed_series += 1".
Account(success) ==
  /\ stats' = count_result(stats, success, Candidate[2].num_images)
  /\ IF success
     THEN /\ series_states' =
               IF args.tracker
               THEN mark_transferred(series_states, SNode, Candidate[1], CandidateUid).states
               ELSE series_states
          /\ hist' = [hist EXCEPT
               !.processed = @ \cup {Here},
               !.counted = @ \cup {Here},
               !.removals = @ \cup
                  (IF args.tracker
                   THEN {[cycle |-> cycle_count, series |-> CandidateUid, by |-> "mark"]}
                   ELSE {})]
          /\ pc' = "monitor"
          /\ idx' = idx
     ELSE /\ Advance([hist EXCEPT !.processed = @ \cup {Here}])
          /\ UNCHANGED series_states

\* The top of the for loop for candidate idx: the strategy, and for the
\* image-level strategy the two image queries and the list of missing images.
BeginCandidate ==
  /\ pc = "next"
  /\ IF use_image_transfer(args.image_level, Candidate[3], Candidate[2].num_images)
     THEN \E remote_image_uids \in ImageLists, local_image_uids \in SUBSET ImageUids :
            LET missing == missing_image_uids(remote_image_uids, local_image_uids) IN
            /\ xfer' = [image |-> TRUE, missing |-> missing, j |-> 1,
                        success_count |-> 0, in_flight |-> 0, requests |-> 0,
                        remote_image_uids |-> remote_image_uids,
                        local_image_uids |-> local_image_uids, sent |-> <<>>]
            /\ IF missing = <<>>
               THEN Account(0 = Len(missing))
               ELSE /\ pc' = "request"
                    /\ UNCHANGED <<idx, stats, series_states, hist>>
     ELSE /\ xfer' = XferIdle
          /\ pc' = "request"
          /\ UNCHANGED <<idx, stats, series_states, hist>>
  /\ UNCHANGED <<now, log, mon, remote_inv, local_inv, args, transfer_list, runs,
                 tracker_file, cycle_count>>

\* A request started while the previous one has not yet returned.
IssueRequest_overlapping ==
  /\ pc \in {"request", "await"}
  /\ xfer.in_flight < 2
  /\ xfer' = [xfer EXCEPT !.in_flight = @ + 1, !.requests = @ + 1]
  /\ hist' = [hist EXCEPT !.requested = @ \cup {Here}]
  /\ pc' = "await"
  /\ UNCHANGED <<series_states, now, log, mon, cmpVars, tracker_file, cycle_count,
                 idx, stats>>

\* client.move_series or client.move_image is called.
IssueRequest ==
  /\ pc = "request"
  /\ xfer' = [xfer EXCEPT !.in_flight = @ + 1, !.requests = @ + 1,
                          !.sent = IF xfer.image THEN Append(@, xfer.missing[xfer.j])
                                   ELSE @]
  /\ hist' = [hist EXCEPT !.requested = @ \cup {Here}]
  /\ pc' = "await"
  /\ UNCHANGED <<series_states, now, log, mon, cmpVars, tracker_file, cycle_count,
                 idx, stats>>

\* A failed request that raises out of the loop instead of returning False.
RequestReturns_raising(ok) ==
  /\ pc = "await"
  /\ IF ok
     THEN /\ xfer' = [xfer EXCEPT !.in_flight = @ - 1, !.j = @ + 1,
                                  !.success_count = @ + 1]
          /\ IF xfer.image /\ xfer.j < Len(xfer.missing)
             THEN /\ pc' = "request"
                  /\ UNCHANGED <<idx, stats, series_states, hist>>
             ELSE Account(~xfer.image \/ xfer.success_count + 1 = Len(xfer.missing))
     ELSE /\ pc' = "crashed"
          /\ xfer' = [xfer EXCEPT !.in_flight = @ - 1]
          /\ UNCHANGED <<idx, stats, series_states, hist>>
  /\ UNCHANGED <<now, log, mon, cmpVars, tracker_file, cycle_count>>

\* The call returns ok; after the last request of the candidate the
\* accounting follows.
RequestReturns(ok) ==
  /\ pc = "await"
  /\ IF xfer.image
     THEN LET success_count == xfer.success_count + (IF ok THEN 1 ELSE 0) IN
          /\ xfer' = [xfer EXCEPT !.in_flight = @ - 1, !.j = @ + 1,
                                  !.success_count = success_count]
          /\ IF xfer.j < Len(xfer.missing)
             THEN /\ pc' = "request"
                  /\ UNCHANGED <<idx, stats, series_states, hist>>
             ELSE Account(success_count = Len(xfer.missing))
     ELSE /\ xfer' = [xfer EXCEPT !.in_flight = @ - 1]
          /\ Account(ok)
  /\ UNCHANGED <<now, log, mon, cmpVars, tracker_file, cycle_count>>

\* wait_for_series_completion, whose result the executor drops. The local
\* node then holds what the last poll counted.
Monitor(kind) ==
  /\ pc = "monitor"
  /\ LET local_count == local_series_dict_get(query_series(local_inv, Candidate[1]),
                                              CandidateUid)
         m == wait_for_series_completion(Candidate[2].num_images, kind, local_count,
                                         MaxQueryTime) IN
       /\ mon' = m
       /\ local_inv' = IF m.current_count = local_count THEN local_inv
                       ELSE SetLocal(local_inv, CandidateUid, m.current_count)
       /\ Advance([hist EXCEPT
            !.monitored = @ \cup {[cycle |-> cycle_count, series |-> CandidateUid,
                                   result |-> m.result]}])
  /\ UNCHANGED <<series_states, now, log, remote_inv, args, transfer_list, runs,
                 tracker_file, cycle_count, stats, xfer>>

\* Back in main: stability_tracker.save(), then the sleep of 60 s or 1 s.
SaveAndSleep ==
  /\ pc = "save"
  /\ args.download_day = Nil
  /\ tracker_file' = save(series_states)
  /\ stats' = [stats EXCEPT !.slept = sleep_seconds(stats.transferred_images)]
  /\ pc' = "idle"
  /\ UNCHANGED <<series_states, now, log, mon, cmpVars, cycle_count, idx, xfer, hist>>

\* The process is stopped during the sleep between two cycles and started
\* again: __init__ and load() run anew, and so does main, from cycle 0.
Restart ==
  /\ pc = "idle"
  /\ args.download_day = Nil
  /\ cycle_count > 0
  /\ hist.restarts < MaxRestarts
  /\ series_states' = load(tracker_file)
  /\ pc' = IF load_raises(tracker_file) THEN "crashed" ELSE "idle"
  /\ cycle_count' = 0
  /\ transfer_list' = <<>>
  /\ idx' = 0
  /\ stats' = stats_start
  /\ xfer' = XferIdle
  /\ mon' = MonIdle
  /\ hist' = [HistIdle EXCEPT !.restarts = hist.restarts + 1,
                              !.before = hist.before + cycle_count]
  /\ UNCHANGED <<now, log, remote_inv, local_inv, args, runs, tracker_file>>

\* KeyboardInterrupt: "Synchronization stopped by user", sys.exit(0).
Interrupt ==
  /\ pc \in {"idle", "next", "request", "await", "monitor", "save"}
  /\ args.download_day = Nil
  /\ pc' = "exited"
  /\ UNCHANGED <<series_states, now, log, mon, cmpVars, tracker_file, cycle_count,
                 idx, stats, xfer, hist>>

\* The one-shot run: run_sync_cycle(..., stability_tracker=None,
\* download_day=...) up to the call of transfer_series_sequential; the
\* ValueError of parse_day_keyword ends the process with sys.exit(1).
OneShotCycle ==
  /\ pc = "idle"
  /\ args.download_day # Nil
  /\ IF parse_day_keyword(args.download_day[1]).raised
     THEN /\ pc' = "failed"
          /\ UNCHANGED <<transfer_list, runs, idx, stats, hist>>
     ELSE \E remote_studies \in {<<>>, <<SStudy>>} :
            LET r == IF remote_studies = <<>>
                     THEN [states |-> series_states, transfer_list |-> <<>>,
                           calls |-> <<>>]
                     ELSE compare_series_and_filter(remote_studies, remote_inv, local_inv,
                                                    SNode, series_states, FALSE,
                                                    args.max_images, args.all_series, now)
            IN
            /\ transfer_list' = r.transfer_list
            /\ runs' = runs + 1
            /\ pc' = IF r.transfer_list = <<>> THEN "save" ELSE "next"
            /\ idx' = 1
            /\ stats' = stats_start
            /\ hist' = [hist EXCEPT
                 !.selected = @ \cup
                    {<<cycle_count, r.transfer_list[k][2].series_uid>> :
                       k \in 1..Len(r.transfer_list)},
                 !.done = @ \cup (IF r.transfer_list = <<>> THEN {cycle_count} ELSE {}),
                 !.queried = TRUE]
  /\ UNCHANGED <<series_states, now, log, mon, remote_inv, local_inv, args,
                 tracker_file, cycle_count, xfer>>

\* The exit that first saves a tracker.
OneShotExit_saving ==
  /\ pc = "save"
  /\ args.download_day # Nil
  /\ pc' = "exited"
  /\ tracker_file' = save(series_states)
  /\ UNCHANGED <<series_states, now, log, mon, cmpVars, cycle_count,
                 idx, stats, xfer, hist>>

\* "Download completed", sys.exit(0).
OneShotExit ==
  /\ pc = "save"
  /\ args.download_day # Nil
  /\ pc' = "exited"
  /\ UNCHANGED <<series_states, now, log, mon, cmpVars, tracker_file, cycle_count,
                 idx, stats, xfer, hist>>

\* Ctrl+C in the one-shot run: nothing catches the KeyboardInterrupt.
OneShotInterrupt ==
  /\ pc \in {"idle", "next", "request", "await", "monitor", "save"}
  /\ args.download_day # Nil
  /\ pc' = "crashed"
  /\ UNCHANGED <<series_states, now, log, mon, cmpVars, tracker_file, cycle_count,
                 idx, stats, xfer, hist>>

Next ==
  \/ SyncCycle
  \/ OneShotCycle
  \/ OneShotExit
  \/ OneShotInterrupt
  \/ BeginCandidate
  \/ IssueRequest
  \/ \E ok \in BOOLEAN : RequestReturns(ok)
  \/ \E kind \in ScriptKinds : Monitor(kind)
  \/ SaveAndSleep
  \/ Restart
  \/ Interrupt

Spec == Init /\ [][Next]_vars

(***************************************************************************)
(* SpecLive: the continuous loop of one process that found a usable or no  *)
(* tracker file, with the scheduling of the code: every query, move        *)
(* request and wait returns (each catches its exceptions and is bounded by *)
(* the network timeouts and by timeout=60), and time.sleep returns.        *)
(* KeyboardInterrupt may come at any time, or never. The runs are those of *)
(* the default selection mode on a local node that holds nothing of S2.    *)
(***************************************************************************)

LiveInit ==
  /\ Init
  /\ args \in {m \in SysModes : m.max_images = Nil}
  /\ tracker_file \in TrackerFiles
  /\ CountIn(local_inv, SStudy, "S2") = Absent

NextLive ==
  \/ SyncCycle
  \/ BeginCandidate
  \/ IssueRequest
  \/ \E ok \in BOOLEAN : RequestReturns(ok)
  \/ \E kind \in ScriptKinds : Monitor(kind)
  \/ SaveAndSleep
  \/ Interrupt

SpecLive ==
  /\ LiveInit
  /\ [][NextLive]_vars
  /\ WF_vars(SyncCycle)
  /\ WF_vars(BeginCandidate)
  /\ WF_vars(IssueRequest)
  /\ WF_vars(\E ok \in BOOLEAN : RequestReturns(ok))
  /\ WF_vars(\E kind \in ScriptKinds : Monitor(kind))
  /\ WF_vars(SaveAndSleep)

(***************************************************************************)
(* SpecTracker: the tracker's operations called in any order on a tracker  *)
(* constructed with no persisted file.                                     *)
(***************************************************************************)

MaxLog == 4

TNode == "ct"
TStudy == "A"
TSeries == {"S1", "S2"}
TCounts == {10, 12}
AdvanceSteps == {1, 49}

TKey(s) == make_key(TNode, TStudy, s)

\* One tracker call: what was called, whether the key's record existed before
\* (had), what it returned or raised, and series_states and the clock after it.
Event(op, series, count, ret, raised, removed, had, post, at) ==
  [op |-> op, series |-> series, count |-> count, ret |-> ret, raised |-> raised,
   removed |-> removed, had |-> had, post |-> post, at |-> at]

TrackerInit ==
  /\ series_states = EmptyMap
  /\ now = 0
  /\ log = <<>>
  /\ mon = MonIdle
  /\ CmpIdle
  /\ SysIdle

TObserve(s, n) ==
  /\ Len(log) < MaxLog
  /\ LET r == update_series(series_states, TNode, TStudy, s, n, now) IN
       /\ series_states' = r.states
       /\ log' = Append(log, Event("observe", s, n, r.ret, FALSE, {},
                                   TKey(s) \in DOMAIN series_states, r.states, now))
  /\ UNCHANGED <<now, mon, cmpVars, sysVars>>

TMark(s) ==
  /\ Len(log) < MaxLog
  /\ LET r == mark_transferred(series_states, TNode, TStudy, s) IN
       /\ series_states' = r.states
       /\ log' = Append(log, Event("mark", s, 0, FALSE, r.raised, {TKey(s)},
                                   TKey(s) \in DOMAIN series_states, r.states, now))
  /\ UNCHANGED <<now, mon, cmpVars, sysVars>>

TCleanup ==
  /\ Len(log) < MaxLog
  /\ LET post == cleanup_old_entries(series_states, max_age_hours, now) IN
       /\ series_states' = post
       /\ log' = Append(log, Event("cleanup", "", 0, FALSE, cleanup_raises(series_states),
                                   DOMAIN series_states \ DOMAIN post, FALSE, post, now))
  /\ UNCHANGED <<now, mon, cmpVars, sysVars>>

TAdvance(d) ==
  /\ Len(log) < MaxLog
  /\ now' = now + d
  /\ log' = Append(log, Event("advance", "", d, FALSE, FALSE, {}, FALSE,
                              series_states, now + d))
  /\ UNCHANGED <<series_states, mon, cmpVars, sysVars>>

NextTracker ==
  \/ \E s \in TSeries, n \in TCounts : TObserve(s, n)
  \/ \E s \in TSeries : TMark(s)
  \/ TCleanup
  \/ \E d \in AdvanceSteps : TAdvance(d)

SpecTracker == TrackerInit /\ [][NextTracker]_vars

(***************************************************************************)
(* SpecMove: move_series and move_image, called one after the other as the *)
(* executor calls them. xfer holds the call under way: its phase, whether  *)
(* its association is established, the success flag, the number of         *)
(* responses read and of calls made, and the number of associations of     *)
(* earlier calls that are still open (leaked). log holds what the calls    *)
(* returned, whether the call's association was released by then, and how  *)
(* many associations were open. An association nobody releases stays open  *)
(* until the network timeout ends it.                                      *)
(***************************************************************************)

MaxCalls == 3
MaxResponses == 2

MoveKinds == {"move_series", "move_image"}
Statuses == {"pending", "success", "failure"}

MoveIdle ==
  [phase |-> "idle", kind |-> "none", established |-> FALSE, success |-> FALSE,
   n |-> 0, calls |-> 0, leaked |-> 0]

\* The associations to the remote source that are open.
OpenAssociations(x) == x.leaked + (IF x.established THEN 1 ELSE 0)

MoveInit ==
  /\ xfer = MoveIdle
  /\ log = <<>>
  /\ series_states = EmptyMap
  /\ now = 0
  /\ mon = MonIdle
  /\ CmpIdle
  /\ tracker_file = NoFile
  /\ cycle_count = 0
  /\ pc = "off"
  /\ idx = 0
  /\ stats = stats_start
  /\ hist = HistIdle

\* The call returns ret: an association still established stays open.
MoveReturn(x, ret) ==
  /\ xfer' = [x EXCEPT !.phase = "idle", !.established = FALSE,
                       !.leaked = @ + (IF x.established THEN 1 ELSE 0)]
  /\ log' = Append(log, [kind |-> x.kind, ret |-> ret, released |-> ~x.established,
                         open |-> OpenAssociations(x)])

\* move_ae.associate(...): established, or rejected ("return False").
MoveAssociate(kind, is_established) ==
  /\ xfer.phase = "idle"
  /\ xfer.calls < MaxCalls
  /\ LET x == [xfer EXCEPT !.kind = kind, !.calls = @ + 1, !.n = 0, !.success = FALSE,
                           !.established = is_established] IN
     IF is_established
     THEN /\ xfer' = [x EXCEPT !.phase = "responses"]
          /\ UNCHANGED log
     ELSE MoveReturn(x, FALSE)
  /\ UNCHANGED <<series_states, now, mon, cmpVars, tracker_file, cycle_count, pc, idx,
                 stats, hist>>

\* One pass of "for (status, identifier) in responses".
MoveResponse(status) ==
  /\ xfer.phase = "responses"
  /\ xfer.n < MaxResponses
  /\ LET x == [xfer EXCEPT !.n = @ + 1] IN
     CASE status = "pending" -> xfer' = x /\ UNCHANGED log
       [] status = "success" -> xfer' = [x EXCEPT !.success = TRUE] /\ UNCHANGED log
       [] OTHER -> MoveReturn(x, FALSE)
  /\ UNCHANGED <<series_states, now, mon, cmpVars, tracker_file, cycle_count, pc, idx,
                 stats, hist>>

\* The responses are exhausted: assoc.release(), "return success".
MoveRelease ==
  /\ xfer.phase = "responses"
  /\ MoveReturn([xfer EXCEPT !.established = FALSE], xfer.success)
  /\ UNCHANGED <<series_states, now, mon, cmpVars, tracker_file, cycle_count, pc, idx,
                 stats, hist>>

\* The network timeout ends an association left open by an earlier call.
MoveTimeout ==
  /\ xfer.leaked > 0
  /\ xfer' = [xfer EXCEPT !.leaked = @ - 1]
  /\ UNCHANGED <<series_states, now, log, mon, cmpVars, tracker_file, cycle_count, pc,
                 idx, stats, hist>>

NextMove ==
  \/ \E kind \in MoveKinds, is_established \in BOOLEAN : MoveAssociate(kind, is_established)
  \/ \E status \in Statuses : MoveResponse(status)
  \/ MoveRelease
  \/ MoveTimeout

SpecMove == MoveInit /\ [][NextMove]_vars

(***************************************************************************)
(* SpecSave: save() as the file system sees it. open(tracker_file, 'w')    *)
(* empties the file, json.dump then writes the text and the with block     *)
(* closes the file; the process may be killed or interrupted at any point, *)
(* and an IOError while writing is caught and leaves what was written.     *)
(* Between saves update_series changes the records.                        *)
(***************************************************************************)

SaveInit ==
  /\ tracker_file \in {NoFile, save(With(EmptyMap, TKey("S1"), fresh_state(10, 0)))}
  /\ series_states = load(tracker_file)
  /\ now = 0
  /\ log = <<>>
  /\ mon = MonIdle
  /\ CmpIdle
  /\ cycle_count = 0
  /\ pc = "idle"
  /\ idx = 0
  /\ stats = stats_start
  /\ xfer = XferIdle
  /\ hist = HistIdle

\* update_series between two saves.
SvObserve(s, n) ==
  /\ pc = "idle"
  /\ Len(log) < MaxLog
  /\ LET r == update_series(series_states, TNode, TStudy, s, n, now) IN
       /\ series_states' = r.states
       /\ log' = Append(log, Event("observe", s, n, r.ret, FALSE, {},
                                   TKey(s) \in DOMAIN series_states, r.states, now))
  /\ UNCHANGED <<now, mon, cmpVars, tracker_file, cycle_count, pc, idx, stats, xfer, hist>>

\* open(self.tracker_file, 'w'): the file exists and is empty.
SaveOpen ==
  /\ pc = "idle"
  /\ pc' = "writing"
  /\ tracker_file' = Truncated
  /\ UNCHANGED <<series_states, now, log, mon, cmpVars, cycle_count, idx, stats, xfer, hist>>

\* json.dump and the close of the file have written the whole text.
SaveWrite ==
  /\ pc = "writing"
  /\ pc' = "idle"
  /\ tracker_file' = save(series_states)
  /\ UNCHANGED <<series_states, now, log, mon, cmpVars, cycle_count, idx, stats, xfer, hist>>

\* IOError while writing (disk full): "Warning: Could not save ...".
SaveIOError ==
  /\ pc = "writing"
  /\ pc' = "idle"
  /\ UNCHANGED <<series_states, now, log, mon, cmpVars, tracker_file, cycle_count,
                 idx, stats, xfer, hist>>

\* The process is killed, or KeyboardInterrupt arrives, here.
SaveKilled ==
  /\ pc \in {"idle", "writing"}
  /\ pc' = "crashed"
  /\ UNCHANGED <<series_states, now, log, mon, cmpVars, tracker_file, cycle_count,
                 idx, stats, xfer, hist>>

NextSave ==
  \/ \E s \in TSeries, n \in TCounts : SvObserve(s, n)
  \/ SaveOpen
  \/ SaveWrite
  \/ SaveIOError
  \/ SaveKilled

SpecSave == SaveInit /\ [][NextSave]_vars

(***************************************************************************)
(* SpecCleanup: the tracker after load() of a file that a previous run, an *)
(* older version or an editor wrote: each record's last_seen is a          *)
(* timestamp, a string that is no timestamp, null, or missing. On it,      *)
(* update_series and cleanup_old_entries are called as the clock advances. *)
(***************************************************************************)

LoadedStamps == {Iso(0), BadStamp, None}

\* The records a loaded file may hold for one key.
LoadedRecords ==
  {[image_count |-> 10, last_seen |-> st, stable_since |-> None] : st \in LoadedStamps}
    \cup {[image_count |-> 10, stable_since |-> None]}

\* series_states after load(): for each series no record, or one of these.
LoadedStates ==
  {json_load(json_dump(m)) :
     m \in UNION {[{TKey(s) : s \in S} -> LoadedRecords] : S \in SUBSET TSeries}}

CleanupInit ==
  /\ series_states \in LoadedStates
  /\ now \in {0, 49}
  /\ log = <<>>
  /\ mon = MonIdle
  /\ CmpIdle
  /\ SysIdle

NextCleanup ==
  \/ \E s \in TSeries, n \in TCounts : TObserve(s, n)
  \/ TCleanup
  \/ \E d \in AdvanceSteps : TAdvance(d)

SpecCleanup == CleanupInit /\ [][NextCleanup]_vars

\* The index of the last event of the log that removed key k (0 when none).
LastRemoval(k) ==
  LET found == {i \in 1..Len(log) : k \in log[i].removed} IN
  IF found = {} THEN 0 ELSE CHOOSE i \in found : \A j \in found : j <= i

\* The update_series calls on series s since its record was last removed.
IsObserveOf(s, e) == e.op = "observe" /\ e.series = s
History(s) ==
  SelectSeq(SubSeq(log, LastRemoval(TKey(s)) + 1, Len(log)),
            LAMBDA e : IsObserveOf(s, e))

Counts(h) == [i \in 1..Len(h) |-> h[i].count]
Rets(h) == [i \in 1..Len(h) |-> h[i].ret]

\* C1: within a run of update_series calls on one key with no mark_transferred
\* or cleanup removal in between, a call returns True exactly when a record
\* exists (it is not the first call of the run) and the stored count equals the
\* count passed; after every call the stored count is the count passed. The
\* counts 10, 10, 12, 12 yield False, True, False, True.
C1_StableIffSameCount ==
  \A s \in TSeries :
    LET h == History(s) IN
    /\ \A i \in 1..Len(h) :
         /\ h[i].ret = (i > 1 /\ h[i].count = h[i-1].count)
         /\ h[i].had = (i > 1)
         /\ h[i].post[TKey(s)].image_count = h[i].count
    /\ Len(h) > 0 =>
         /\ TKey(s) \in DOMAIN series_states
         /\ series_states[TKey(s)].image_count = h[Len(h)].count
    /\ Counts(h) = <<10, 10, 12, 12>> => Rets(h) = <<FALSE, TRUE, FALSE, TRUE>>

C1_Witness ==
  \E s \in TSeries : Counts(History(s)) = <<10, 10, 12, 12>>

\* C6: mark_transferred never raises and leaves no record for its key, whether
\* or not one existed; a second call right after the first changes nothing; and
\* the next update_series on that key, with any count, returns not-stable and
\* creates a fresh record.
C6_MarkTransferredIdempotent ==
  /\ \A i \in 1..Len(log) :
       log[i].op = "mark" =>
         /\ ~log[i].raised
         /\ TKey(log[i].series) \notin DOMAIN log[i].post
         /\ \A k \in DOMAIN log[i].post :
              k \in DOMAIN (IF i = 1 THEN EmptyMap ELSE log[i-1].post)
         /\ (i > 1 /\ log[i-1].op = "mark" /\ log[i-1].series = log[i].series)
              => log[i].post = log[i-1].post
  /\ \A s \in TSeries :
       LET h == History(s)
           r == LastRemoval(TKey(s)) IN
       (r > 0 /\ log[r].op = "mark" /\ Len(h) > 0) =>
         /\ ~h[1].ret
         /\ ~h[1].had
         /\ h[1].post[TKey(s)] = fresh_state(h[1].count, h[1].at)

\* A record is observed twice with one count (stable), marked transferred twice,
\* then observed again with the same count.
C6_Witness ==
  \E s \in TSeries, n \in TCounts :
    /\ Len(log) >= 4
    /\ log[1].op = "observe" /\ log[1].series = s /\ log[1].count = n
    /\ log[2].op = "mark" /\ log[2].series = s /\ log[2].had
    /\ log[3].op = "mark" /\ log[3].series = s /\ ~log[3].had
    /\ log[4].op = "observe" /\ log[4].series = s /\ log[4].count = n

\* C8: the poll that first observes current_count >= expected_images ends the
\* wait with success: it is the last poll, and no sleep follows it (every
\* earlier poll was followed by one sleep).
C8_CompleteAtFirstReachingPoll ==
  /\ (mon.polls > 0 /\ mon.current_count >= mon.expected_images) =>
       /\ mon.pc = "done"
       /\ mon.result = "complete"
       /\ wait_returns(mon)
       /\ mon.sleeps = mon.polls - 1
  /\ mon.result = "complete" =>
       (mon.polls > 0 /\ mon.current_count >= mon.expected_images)

C8_Witness ==
  /\ mon.result = "complete"
  /\ mon.polls >= 3
  /\ mon.sleeps = mon.polls - 1

\* C9 as stated: once the latest 3 polls returned one count below the expected
\* count, the wait has ended, with partial success for a count > 0 and failure
\* for 0.
C9_Original ==
  (mon.run >= 3 /\ mon.current_count < mon.expected_images) =>
    /\ mon.pc = "done"
    /\ mon.result = (IF mon.current_count > 0 THEN "partial" ELSE "no_images")

\* The polls that end the wait as settled: the 4th in a row to return one
\* count, or the 3rd poll of the wait when all three returned 0 (the count is
\* compared with the previous reading, which is 0 before the first poll).
Settled ==
  /\ mon.polls > 0
  /\ mon.current_count < mon.expected_images
  /\ \/ mon.run >= 4
     \/ mon.run = 3 /\ mon.polls = 3 /\ mon.current_count = 0

\* C9 amended: the wait ends as settled exactly at a poll that is the 4th in a
\* row to return one below-expected count, or the 3rd poll of the wait when the
\* first three polls all returned 0; it then returns partial success (True) when
\* that count is > 0 and failure (False) when it is 0. Three equal polls of a
\* count > 0 do not end the wait.
C9_SettledAfterThreeUnchanged ==
  /\ Settled =>
       /\ mon.pc = "done"
       /\ mon.result = (IF mon.current_count > 0 THEN "partial" ELSE "no_images")
       /\ wait_returns(mon) = (mon.current_count > 0)
       /\ mon.sleeps = mon.polls - 1
  /\ mon.result \in {"partial", "no_images"} => Settled
  /\ (mon.run = 3 /\ mon.current_count > 0 /\ mon.current_count < mon.expected_images)
       => mon.result \in {"none", "timeout"}

C9_Witness ==
  /\ mon.result = "partial"
  /\ mon.run = 4
  /\ mon.polls > 4

\* C10: the wait ends for every sequence of poll results: each pass that does
\* not return sleeps check_interval, so at most timeout / check_interval
\* (rounded up) polls are made; when the loop test fails the wait reports
\* timeout, returns False, at least timeout has elapsed, and the count it
\* reports (last_count) is the count of the latest poll.
MaxPolls == (timeout + check_interval - 1) \div check_interval

C10_MonitorTerminates ==
  /\ <>(mon.pc = "done")
  /\ [](mon.polls <= MaxPolls)
  /\ [](mon.result = "timeout" =>
          /\ ~wait_returns(mon)
          /\ mon.elapsed >= timeout
          /\ mon.last_count = mon.current_count
          /\ mon.polls >= 1)

\* The count changed at every poll without reaching the expected count until
\* the time ran out.
C10_Witness ==
  /\ mon.result = "timeout"
  /\ mon.polls >= 30
  /\ mon.changing

\* The remote series of the studies compared, as (study, series) pairs, and
\* the number of images the local node holds of a series (0 when it lists none).
RemoteSeries ==
  UNION {{<<args.studies[j], remote_inv[args.studies[j]][i]>> :
            i \in 1..Len(remote_inv[args.studies[j]])} :
         j \in 1..Len(args.studies)}

LocalCountOf(st, uid) ==
  LET found == {l \in {local_inv[st][i] : i \in 1..Len(local_inv[st])} : l.series_uid = uid} IN
  IF found = {} THEN 0 ELSE (CHOOSE l \in found : TRUE).num_images

TransferSet == {transfer_list[i] : i \in 1..Len(transfer_list)}

PlainRun == runs >= 1 /\ ~args.tracker /\ args.max_images = Nil

\* C4 as stated: without tracker and image bound the output holds a tuple for
\* every remote series with remote count > 0 and local count < remote count.
C4_Original ==
  PlainRun =>
    \A p \in RemoteSeries :
      (p[2].num_images > 0 /\ LocalCountOf(p[1], p[2].series_uid) < p[2].num_images)
        => <<p[1], p[2], LocalCountOf(p[1], p[2].series_uid)>> \in TransferSet

\* C4 amended: without tracker and image bound the output holds, once each,
\* the tuple (study, series, localImageCount) of exactly the remote series with
\* remote count > 0 and local count < remote count, except those with more
\* than 10 remote images of which at most 3 are missing locally.
C4_IncompleteExceptFewMissing ==
  PlainRun =>
    /\ TransferSet =
         {<<p[1], p[2], LocalCountOf(p[1], p[2].series_uid)>> :
            p \in {q \in RemoteSeries :
                     /\ q[2].num_images > 0
                     /\ LocalCountOf(q[1], q[2].series_uid) < q[2].num_images
                     /\ ~(/\ q[2].num_images > 10
                          /\ q[2].num_images - LocalCountOf(q[1], q[2].series_uid) <= 3)}}
    /\ Cardinality(TransferSet) = Len(transfer_list)

\* One series of 5 images lacks 1 and is listed; one of 20 lacks 1 and is not.
C4_Witness ==
  /\ PlainRun
  /\ \E i \in 1..Len(transfer_list) :
       transfer_list[i][2].num_images = 5 /\ transfer_list[i][3] = 4
  /\ \E p \in RemoteSeries :
       /\ p[2].num_images = 20
       /\ LocalCountOf(p[1], p[2].series_uid) = 19
       /\ \A i \in 1..Len(transfer_list) :
            ~(transfer_list[i][1] = p[1] /\ transfer_list[i][2] = p[2])

\* C5: in every mode, with or without a tracker, every tuple of the output is
\* a remote series with remote count > 0 whose local count (the tuple's third
\* component) is below the remote count.
C5_NoEmptyNoComplete ==
  \A i \in 1..Len(transfer_list) :
    LET t == transfer_list[i] IN
    /\ <<t[1], t[2]>> \in RemoteSeries
    /\ t[2].num_images > 0
    /\ t[3] = LocalCountOf(t[1], t[2].series_uid)
    /\ t[3] < t[2].num_images

\* A second run with tracker and image bound lists something, while the
\* remote node also holds an empty series and a series complete locally.
C5_Witness ==
  /\ runs = 2
  /\ args.tracker
  /\ args.max_images # Nil
  /\ Len(transfer_list) >= 1
  /\ \E p \in RemoteSeries : p[2].num_images = 0
  /\ \E p \in RemoteSeries :
       p[2].num_images > 0 /\ LocalCountOf(p[1], p[2].series_uid) >= p[2].num_images

(***************************************************************************)
(* Claims about the running system (Spec)                                  *)
(***************************************************************************)

\* The results of wait_for_series_completion that make it return True.
Verified == {"complete", "partial"}

\* C2 (as stated): a candidate is counted in the transferred totals and
\* removed from the tracker only once wait_for_series_completion has returned
\* for it in that cycle, and returned success; a candidate whose wait returned
\* failure or timed out is not among the counted ones.
C2_CountedOnlyAfterVerified ==
  \A x \in hist.counted :
    /\ \E m \in hist.monitored : m.cycle = x[1] /\ m.series = x[2]
    /\ \A m \in hist.monitored :
         m.cycle = x[1] /\ m.series = x[2] => m.result \in Verified

\* The failing run is reached: a move request returned success, the series is
\* counted and its record removed, and the wait then found no image at all.
C2_Witness ==
  /\ \E m \in hist.monitored :
       /\ m.result = "no_images"
       /\ <<m.cycle, m.series>> \in hist.counted
       /\ [cycle |-> m.cycle, series |-> m.series, by |-> "mark"] \in hist.removals
  /\ stats.transferred_series >= 1

\* The observations of series u in cycle c.
ObservedIn(c, u) == {o \in hist.observed : o.cycle = c /\ o.series = u}

\* C3, first half: in a cycle whose observation of a series finds no record of
\* it, no move request is issued for that series.
NoRequestAtFirstSighting ==
  \A o \in hist.observed : ~o.had => <<o.cycle, o.series>> \notin hist.requested

\* Series u, first seen in cycle c, is seen with the same count in cycle c + 1.
SeenAgainUnchanged(o, o2) ==
  /\ ~o.had
  /\ o2.series = o.series
  /\ o2.cycle = o.cycle + 1
  /\ o2.count = o.count

\* The executor has handled the candidate: it went through the accounting of
\* its requests, and with whole-series transfer a request was issued.
Executed(c, u) ==
  /\ <<c, u>> \in hist.processed
  /\ ~args.image_level => <<c, u>> \in hist.requested

\* C3 (as stated): no request in the cycle of the first sighting; seen again
\* unchanged in the next cycle, the series is selected and, once the executor
\* has gone through that cycle's list, its transfer has been executed.
C3_Original ==
  /\ NoRequestAtFirstSighting
  /\ \A o, o2 \in hist.observed :
       SeenAgainUnchanged(o, o2) =>
         /\ <<o2.cycle, o2.series>> \in hist.selected
         /\ o2.cycle \in hist.done => Executed(o2.cycle, o2.series)

\* C3 (amended): as above, for a series that the selection mode admits: any
\* series without --max-images, and one of at most max_images images with it.
C3_SecondCycleTransfer ==
  /\ NoRequestAtFirstSighting
  /\ \A o, o2 \in hist.observed :
       SeenAgainUnchanged(o, o2) /\ (args.max_images = Nil \/ o2.count <= args.max_images[1]) =>
         /\ o2.ret
         /\ <<o2.cycle, o2.series>> \in hist.selected
         /\ o2.cycle \in hist.done => Executed(o2.cycle, o2.series)

\* S1 with 100 remote and 40 local images: first seen in cycle 1 and not
\* requested, seen again in cycle 2, selected and requested there.
C3_Witness ==
  /\ [cycle |-> 1, series |-> "S1", count |-> 100, had |-> FALSE, ret |-> FALSE] \in hist.observed
  /\ [cycle |-> 2, series |-> "S1", count |-> 100, had |-> TRUE, ret |-> TRUE] \in hist.observed
  /\ CountIn(local_inv, SStudy, "S1") = 40
  /\ <<1, "S1">> \notin hist.requested
  /\ <<2, "S1">> \in hist.selected
  /\ <<2, "S1">> \in hist.requested
  /\ <<2, "S1">> \in hist.processed

\* Between the observations o and o2 of one series the count was not seen to
\* differ.
CountKept(o, o2) ==
  /\ o2.series = o.series
  /\ o2.count = o.count
  /\ o.cycle < o2.cycle
  /\ \A x \in hist.observed :
       x.series = o.series /\ o.cycle < x.cycle /\ x.cycle < o2.cycle => x.count = o.count

\* The record of the series was removed between the observations: by
\* mark_transferred in a cycle from o's on and before o2's, or by the cleanup
\* at the head of a cycle after o's up to o2's.
RemovedBetween(o, o2) ==
  \E r \in hist.removals :
    /\ r.series = o.series
    /\ \/ r.by = "mark" /\ o.cycle <= r.cycle /\ r.cycle < o2.cycle
       \/ r.by = "cleanup" /\ o.cycle < r.cycle /\ r.cycle <= o2.cycle

\* C7 (as stated): after an observation of a key, every later observation
\* with the count unchanged in between returns stable: so the second of two
\* consecutive equal observations, and every one after it.
C7_Original ==
  \A o, o2 \in hist.observed : CountKept(o, o2) => o2.ret

\* C7 (amended): the same, unless the record of the key was removed in
\* between, as mark_transferred does after a move request reported success.
C7_StableUnlessRemoved ==
  \A o, o2 \in hist.observed : CountKept(o, o2) /\ ~RemovedBetween(o, o2) => o2.ret

\* A series is seen with the same count in three cycles, stable in the second
\* and the third, no request having succeeded in the second.
C7_Witness ==
  \E u \in {"S1", "S2"}, n \in SysRemoteS1 \cup SysRemoteS2 :
    /\ [cycle |-> 1, series |-> u, count |-> n, had |-> FALSE, ret |-> FALSE] \in hist.observed
    /\ [cycle |-> 2, series |-> u, count |-> n, had |-> TRUE, ret |-> TRUE] \in hist.observed
    /\ [cycle |-> 3, series |-> u, count |-> n, had |-> TRUE, ret |-> TRUE] \in hist.observed
    /\ <<2, u>> \in hist.processed
    /\ <<2, u>> \notin hist.counted


\* C11: at most one transfer request (move_series or move_image) is in flight
\* at any time: a request is started only when none is in flight.
C11_OneRequestInFlight ==
  /\ xfer.in_flight \in {0, 1}
  /\ pc = "request" => xfer.in_flight = 0
  /\ pc = "await" => xfer.in_flight = 1

\* A request is in flight after an earlier request of the same cycle returned.
C11_Witness ==
  /\ xfer.in_flight = 1
  /\ pc = "await"
  /\ \/ xfer.image /\ xfer.requests = 2
     \/ idx = 2 /\ <<cycle_count, transfer_list[1][2].series_uid>> \in hist.requested

\* The candidate at position j of this cycle's transfer list.
At(j) == <<cycle_count, transfer_list[j][2].series_uid>>

\* The wait has returned for the candidate x of this cycle.
WaitReturned(x) == \E m \in hist.monitored : m.cycle = x[1] /\ m.series = x[2]

\* C12: within a cycle the candidates are handled in the order of the
\* transfer list: while candidate idx is being handled, every earlier one has
\* been through its accounting and, if its transfer reported success, its wait
\* has returned; no later one has had a request or been accounted.
C12_InOrderWaitBeforeNext ==
  pc \in {"next", "request", "await", "monitor"} =>
    \A j \in 1..Len(transfer_list) :
      /\ j < idx => /\ At(j) \in hist.processed
                    /\ At(j) \in hist.counted => WaitReturned(At(j))
      /\ j > idx => At(j) \notin hist.requested \cup hist.processed
      /\ j = idx /\ pc \in {"next", "request"} /\ xfer.requests = 0 =>
           At(j) \notin hist.requested \cup hist.processed

\* The request of the second candidate is in flight after the first one's
\* transfer reported success and its wait returned.
C12_Witness ==
  /\ pc = "await"
  /\ idx = 2
  /\ At(1) \in hist.counted
  /\ WaitReturned(At(1))
  /\ At(2) \in hist.requested

\* The candidates of this cycle's list that were counted as transferred.
CountedPositions == {j \in 1..Len(transfer_list) : At(j) \in hist.counted}

\* C13: every candidate of the list is attempted once, whatever became of the
\* earlier ones: the two counters together count the candidates handled so
\* far, a whole-series transfer takes one request and an image-level transfer
\* at most one per missing image, and when the executor returns every
\* candidate has been handled and succeeded + failed is the length of the list.
C13_EveryCandidateOnce ==
  /\ pc \in {"next", "request", "await"} =>
       stats.transferred_series + stats.failed_series = idx - 1
  /\ pc = "monitor" => stats.transferred_series + stats.failed_series = idx
  /\ pc \in {"next", "request", "await", "monitor"} =>
       /\ stats.transferred_series = Cardinality(CountedPositions)
       /\ xfer.requests <= (IF xfer.image THEN Len(xfer.missing) ELSE 1)
  /\ pc \in {"save", "idle"} /\ cycle_count > 0 =>
       /\ stats.transferred_series + stats.failed_series = Len(transfer_list)
       /\ stats.transferred_series = Cardinality(CountedPositions)
       /\ \A j \in 1..Len(transfer_list) : At(j) \in hist.processed

\* The executor has returned from a list of two candidates of which the first
\* failed and the second, attempted all the same, succeeded.
C13_Witness ==
  /\ pc = "save"
  /\ Len(transfer_list) = 2
  /\ At(1) \in hist.requested /\ At(1) \notin hist.counted
  /\ At(2) \in hist.counted
  /\ stats.failed_series = 1
  /\ stats.transferred_series = 1

(***************************************************************************)
(* Claims about the selection modes (SpecCompare). The modes are those of  *)
(* the command line: --all-series ("all"), --max-images N ("bounded") and  *)
(* neither of the two (the default, "smallest-only").                      *)
(***************************************************************************)

AllMode == args.all_series
BoundedMode == args.max_images # Nil
SmallestMode == ~args.all_series /\ args.max_images = Nil

\* The comparison has run and every series it observed was reported stable:
\* there is no tracker, or this is the second run over unchanged archives.
StableRun == (runs >= 1 /\ ~args.tracker) \/ runs >= 2

\* Of the remote series p = (study, series): the images missing locally,
\* whether it is incomplete, and whether the transfer list holds it.
Missing(p) == p[2].num_images - LocalCountOf(p[1], p[2].series_uid)
Incomplete(p) == p[2].num_images > 0 /\ Missing(p) > 0
Listed(p) == <<p[1], p[2], LocalCountOf(p[1], p[2].series_uid)>> \in TransferSet

\* C14 (as stated): in "all" mode a stable series with exactly one missing
\* image is in the transfer list.
C14_Original ==
  AllMode /\ StableRun => \A p \in RemoteSeries : Missing(p) = 1 => Listed(p)

\* C14 (amended): in "all" mode a stable series with exactly one missing image
\* is in the transfer list exactly when it has at most 10 remote images.
C14_SingleMissingListedIfSmall ==
  AllMode /\ StableRun =>
    \A p \in RemoteSeries : Missing(p) = 1 => (Listed(p) <=> p[2].num_images <= 10)

\* "All" mode with a tracker, second run: remote=5, local=4 is listed and
\* remote=20, local=19 is not.
C14_Witness ==
  /\ AllMode /\ args.tracker /\ runs = 2
  /\ \E p \in RemoteSeries : p[2].num_images = 5 /\ Missing(p) = 1 /\ Listed(p)
  /\ \E p \in RemoteSeries : p[2].num_images = 20 /\ Missing(p) = 1 /\ ~Listed(p)

\* C15 (as stated): in the default mode and in bounded mode no series with
\* exactly one missing image is in the transfer list, whatever its size.
C15_Original ==
  ~AllMode => \A p \in RemoteSeries : Missing(p) = 1 => ~Listed(p)

\* C15 (amended): in the default mode and in bounded mode a series of more
\* than 10 remote images with exactly one missing image is never in the
\* transfer list; a stable one of at most 10 remote images is, unless the
\* bound of the bounded mode is below its remote count.
C15_SingleMissingOnlyIfSmall ==
  ~AllMode =>
    \A p \in RemoteSeries :
      Missing(p) = 1 =>
        /\ Listed(p) => p[2].num_images <= 10
        /\ StableRun /\ p[2].num_images <= 10
             /\ (BoundedMode => p[2].num_images <= args.max_images[1]) => Listed(p)

\* Bounded mode with threshold 20: remote=5, local=4 is listed and remote=20,
\* local=19 is not.
C15_Witness ==
  /\ args.max_images = Opt(20) /\ StableRun
  /\ \E p \in RemoteSeries : p[2].num_images = 5 /\ Missing(p) = 1 /\ Listed(p)
  /\ \E p \in RemoteSeries : p[2].num_images = 20 /\ Missing(p) = 1 /\ ~Listed(p)

\* The series the comparator passes on to the selection: incomplete, and not
\* one of more than 10 remote images with at most 3 missing.
Eligible(p) == Incomplete(p) /\ ~(p[2].num_images > 10 /\ Missing(p) <= 3)

C17_Original ==
  AllMode /\ StableRun =>
    \A p \in RemoteSeries : Listed(p) <=> (Incomplete(p) /\ Missing(p) >= 2)

\* C17 (amended): in "all" mode the transfer list is exactly, and once each,
\* the stable incomplete series that have more than 3 missing images or at
\* most 10 remote images.
C17_AllModeListsEligible ==
  AllMode /\ StableRun =>
    /\ \A p \in RemoteSeries :
         Listed(p) <=> (Incomplete(p) /\ (Missing(p) > 3 \/ p[2].num_images <= 10))
    /\ \A i \in 1..Len(transfer_list) :
         \E p \in RemoteSeries :
           transfer_list[i] = <<p[1], p[2], LocalCountOf(p[1], p[2].series_uid)>>
    /\ Cardinality(TransferSet) = Len(transfer_list)

\* "All" mode with a tracker, second run: a series with 3 of 20 images missing
\* is not listed and one with 1 of 5 missing is.
C17_Witness ==
  /\ AllMode /\ args.tracker /\ runs = 2
  /\ \E p \in RemoteSeries : p[2].num_images = 20 /\ Missing(p) = 3 /\ ~Listed(p)
  /\ \E p \in RemoteSeries : p[2].num_images = 5 /\ Missing(p) = 1 /\ Listed(p)

\* C18: in bounded mode with threshold N every tuple of the transfer list has
\* a remote image count of at most N.
C18_BoundedWithinThreshold ==
  BoundedMode =>
    \A i \in 1..Len(transfer_list) : transfer_list[i][2].num_images <= args.max_images[1]

\* Bounded mode with threshold 10: a series of 5 images is listed while an
\* eligible series of 50 images is not.
C18_Witness ==
  /\ args.max_images = Opt(10) /\ StableRun
  /\ \E p \in RemoteSeries : p[2].num_images = 5 /\ Listed(p)
  /\ \E p \in RemoteSeries : p[2].num_images = 50 /\ Eligible(p) /\ ~Listed(p)

\* C19: the executor handles a candidate at image level exactly when
\* --image-level is given and less than 30% of the series' remote images are
\* missing locally (10 * missing < 3 * remote count); otherwise it issues one
\* whole-series request. At image level it issues one request per image
\* found missing.
C19_ImageLevelIffUnder30 ==
  pc \in {"request", "await", "monitor"} =>
    LET num_images == Candidate[2].num_images
        missing == num_images - Candidate[3] IN
    /\ xfer.image <=> (args.image_level /\ 10 * missing < 3 * num_images)
    /\ ~xfer.image =>
         xfer.requests = (IF pc = "request" THEN 0 ELSE 1)
    /\ xfer.image =>
         /\ xfer.requests <= Len(xfer.missing)
         /\ pc = "monitor" => xfer.requests = Len(xfer.missing)

\* With --image-level, a move_image request is in flight for a series with 10
\* of 50 images missing.
C19_Witness ==
  /\ args.image_level
  /\ pc = "await"
  /\ xfer.image
  /\ Candidate[2].num_images = 50 /\ Candidate[3] = 40

\* With --image-level, a whole-series request is in flight for a series with
\* exactly 30 of 100 images missing.
C19_WitnessBoundary ==
  /\ args.image_level
  /\ pc = "await"
  /\ ~xfer.image
  /\ Candidate[2].num_images = 100 /\ Candidate[3] = 70

RECURSIVE ImagesCounted(_)
\* The remote image counts of the candidates up to position j of this cycle's
\* list that were counted as transferred, summed.
ImagesCounted(j) ==
  IF j = 0 THEN 0
  ELSE ImagesCounted(j - 1)
         + (IF At(j) \in hist.counted THEN transfer_list[j][2].num_images ELSE 0)

\* C20: after a cycle the scheduler has paused 1 s when the cycle's
\* transferred-image count (the remote image counts of the series whose
\* transfer reported success) is at least 30, and 60 s otherwise.
C20_PauseByVolume ==
  pc = "idle" /\ cycle_count > 0 =>
    /\ stats.transferred_images = ImagesCounted(Len(transfer_list))
    /\ stats.slept = (IF stats.transferred_images >= 30 THEN 1 ELSE 60)

\* A cycle that transferred 50 images or more was followed by the 1 s pause.
C20_Witness ==
  /\ pc = "idle" /\ cycle_count > 0
  /\ stats.transferred_images >= 50
  /\ stats.slept = 1

\* A cycle that transferred only a series of 12 images was followed by the
\* 60 s wait.
C20_WitnessLong ==
  /\ pc = "idle" /\ cycle_count > 0
  /\ stats.transferred_images = 12
  /\ stats.slept = 60

\* C21 (as stated): when continuous mode has been cancelled by an interrupt,
\* at whatever point, the persisted store equals the tracker's state in memory
\* at the moment of cancellation.
C21_SavedOnInterrupt ==
  pc = "exited" /\ args.tracker => load(tracker_file) = series_states

\* The loop was interrupted in the middle of a cycle that had observed a series
\* for the first time: the record is in memory and not in the file.
C21_Witness ==
  /\ pc = "exited"
  /\ hist.observed # {}
  /\ cycle_count \notin hist.done
  /\ \E k \in DOMAIN series_states :
       tracker_file.kind = "absent" \/ k \notin DOMAIN tracker_file.data

\* C23 (as stated): loading a corrupt or unreadable tracker file does not
\* raise: before the first cycle the process is running with an empty tracker,
\* and every series the first cycle observes is a first sighting.
C23_CorruptLoadsEmpty ==
  tracker_file \in CorruptFiles =>
    /\ pc # "crashed"
    /\ cycle_count = 0 => series_states = EmptyMap
    /\ \A o \in hist.observed : o.cycle = 1 => ~o.had

\* The process has ended, before its first cycle, on a tracker file whose
\* bytes are not text.
C23_Witness ==
  /\ tracker_file = Undecodable
  /\ pc = "crashed"
  /\ cycle_count = 0

(***************************************************************************)
(* Claims about the one-shot run (--download-day) and the process's exit   *)
(***************************************************************************)

OneShot == args.download_day # Nil

\* The series of the study that the comparison without a tracker lists in the
\* mode of the run: incomplete, not one of more than 10 images with at most 3
\* missing, and within --max-images.
EligibleNow ==
  {u \in {"S1", "S2"} :
     LET r == CountIn(remote_inv, SStudy, u)
         l == IF CountIn(local_inv, SStudy, u) = Absent THEN 0
              ELSE CountIn(local_inv, SStudy, u) IN
     /\ r > 0 /\ l < r
     /\ ~(r - l <= 3 /\ r > 10)
     /\ (args.max_images # Nil => r <= args.max_images[1])}

ListedNow == {transfer_list[k][2].series_uid : k \in 1..Len(transfer_list)}

\* C28: a one-shot run makes one pass and no more, without a cycle count or an
\* inter-cycle wait; it calls no update_series and keeps no tracker state, so
\* that the series listed when the pass has compared the study are all the
\* incomplete ones the mode admits, on their first observation; and no step
\* of it changes the tracker file, which it has not loaded either.
C28_OneShotSinglePass ==
  /\ [](OneShot =>
          /\ runs <= 1
          /\ cycle_count = 0
          /\ stats.slept = 0
          /\ hist.observed = {}
          /\ series_states = EmptyMap
          /\ (pc = "next" /\ idx = 1) => ListedNow = EligibleNow)
  /\ [][OneShot => tracker_file' = tracker_file]_vars

\* A one-shot run over a tracker file that cannot even be read as text has
\* made its pass, transferred a series it saw for the first time, and exited;
\* the file is as it was.
C28_Witness ==
  /\ OneShot
  /\ pc = "exited"
  /\ runs = 1
  /\ hist.counted # {}
  /\ tracker_file = Undecodable

\* The day specifiers that are no day: neither today nor yesterday, in any
\* case of letters, nor a date written YYYYMMDD.
InvalidDays == {"2023-12-25", "someday"}

C29_WitnessCompleted ==
  /\ args.download_day = Opt("TODAY")
  /\ pc = "exited"
  /\ exit_status(pc) = 0
  /\ hist.requested # {}

(***************************************************************************)
(* C22: in continuous mode every cycle ends with the tracker saved before  *)
(* the sleep, so that during the sleep the file holds exactly the records  *)
(* in memory; a process restarted during the sleep starts with exactly     *)
(* those records: none is forgotten, and none that mark_transferred        *)
(* deleted comes back.                                                     *)
(***************************************************************************)
Restarting == hist'.restarts = hist.restarts + 1

C22_WitnessDeleted ==
  /\ hist.restarts = 1
  /\ cycle_count = 0
  /\ hist.before = 1
  /\ tracker_file # NoFile
  /\ make_key(SNode, SStudy, "S2") \in DOMAIN series_states
  /\ make_key(SNode, SStudy, "S1") \notin DOMAIN series_states
  /\ \E f \in TrackerFiles : make_key(SNode, SStudy, "S1") \in DOMAIN load(f)
  /\ stats = stats_start

(***************************************************************************)
(* C24: a study whose series query failed, on the remote or on the local   *)
(* node, contributes no candidate to the call, and the other studies'      *)
(* candidates are those of a call without failures.                        *)
(***************************************************************************)
StudiesListed == {transfer_list[k][1] : k \in 1..Len(transfer_list)}

C24_FailedStudySkipped ==
  runs > 0 => StudiesListed \cap (hist.remote_failed \cup hist.local_failed) = {}

\* The local query of study A failed; its series S1, of which the local node
\* holds all 20 images, is listed with a local count of 0, and study B,
\* whose queries succeeded, is listed too.
C24_Witness ==
  /\ runs = 1
  /\ ~args.tracker
  /\ hist.local_failed = {"A"}
  /\ hist.remote_failed = {}
  /\ local_series_dict_get(query_series(local_inv, "A"), "S1") = 20
  /\ \E k \in 1..Len(transfer_list) :
       /\ transfer_list[k][1] = "A"
       /\ transfer_list[k][2] = DicomSeries("S1", 20)
       /\ transfer_list[k][3] = 0
  /\ "B" \in StudiesListed

\* A failed remote query does skip the study, and a study without a failure
\* is compared as in a call where nothing failed.
C24_RemoteFailureSkips ==
  runs = 1 =>
    /\ StudiesListed \cap hist.remote_failed = {}
    /\ \A st \in {"A", "B"} \ (hist.remote_failed \cup hist.local_failed) :
         SelectSeq(transfer_list, LAMBDA c : c[1] = st) =
           SelectSeq(compare_series_and_filter(args.studies, remote_inv, local_inv,
                                               CNode, EmptyMap, args.tracker,
                                               args.max_images, args.all_series,
                                               now).transfer_list,
                     LAMBDA c : c[1] = st)

(***************************************************************************)
(* C25 as stated: two successive calls of compare_series_and_filter with   *)
(* the same arguments and unchanged inventories return the same list.      *)
(***************************************************************************)
Rerun == runs >= 1 /\ runs' = runs + 1

WithoutTracker ==
  compare_series_and_filter(args.studies, remote_inv, local_inv, CNode, EmptyMap,
                            FALSE, args.max_images, args.all_series, now).transfer_list

C25_WitnessSame ==
  /\ ~args.tracker
  /\ runs = 2
  /\ Len(transfer_list) >= 2

(***************************************************************************)
(* C26: a candidate transferred image by image of whose requests some but  *)
(* not all succeeded is not counted as a failed series.                    *)
(***************************************************************************)
\* The first candidate of the cycle has just been accounted, and it was an
\* image-level transfer with some but not all requests successful.
PartialFirst ==
  /\ pc \in {"next", "save"}
  /\ idx = 2
  /\ xfer.image
  /\ 0 < xfer.success_count
  /\ xfer.success_count < Len(xfer.missing)

C26_PartialNotFailed == PartialFirst => stats.failed_series = 0

\* One of the two missing images arrived; the candidate is counted as a
\* failed series and none of its images as transferred.
C26_Witness ==
  /\ PartialFirst
  /\ xfer.success_count = 1
  /\ Len(xfer.missing) = 2
  /\ stats.failed_series = 1
  /\ stats.transferred_series = 0
  /\ stats.transferred_images = 0
  /\ <<cycle_count, transfer_list[1][2].series_uid>> \in hist.processed \ hist.counted

(***************************************************************************)
(* C27 as stated: a series whose transfer was reported successful and      *)
(* whose completion wait timed out, and that the next cycle finds still    *)
(* incomplete with the same remote count, is selected in that next cycle.  *)
(***************************************************************************)
\* The wait for m's series timed out in cycle m.cycle, and the comparison of
\* the next cycle observed the series, o2, with the count of that cycle, o.
TimedOutThenSeen(m, o, o2) ==
  /\ m.result = "timeout"
  /\ o.cycle = m.cycle
  /\ o.series = m.series
  /\ o2.cycle = m.cycle + 1
  /\ o2.series = m.series
  /\ o2.count = o.count

InCycle == pc \in {"next", "request", "await", "monitor", "save"}
Saved == pc = "idle" /\ cycle_count > 0 /\ tracker_file = save(series_states)
Cancelled == pc = "exited"
Sleeping == pc = "idle" /\ cycle_count < MaxCycles

C30_LoopSurvivesFailures ==
  /\ [](pc \notin {"failed", "crashed"})
  /\ [][pc' \in Terminal /\ pc \notin Terminal => Interrupt]_vars
  /\ InCycle ~> (Saved \/ Cancelled)
  /\ Sleeping ~> (InCycle \/ Cancelled)
  /\ [][pc = "idle" /\ InCycle' => cycle_count' = cycle_count + 1]_vars

\* Cycle 1 listed nothing or its request failed, in cycle 2 a request failed
\* and a wait ended without success, and cycle 3 has run and been saved.
C30_Witness ==
  /\ Saved
  /\ cycle_count = 3
  /\ \E x \in hist.processed \ hist.counted : x[1] = 2
  /\ \E m \in hist.monitored : m.cycle = 2 /\ m.result \in {"timeout", "no_images"}
  /\ {1, 2, 3} \subseteq hist.done

(***************************************************************************)
(* C31: cleanup_old_entries removes exactly the records whose last_seen is *)
(* more than max_age_hours old or is no valid timestamp (missing, not a    *)
(* timestamp string, null), and leaves every other record as it was.       *)
(***************************************************************************)
CorruptStamp(rec) == "last_seen" \notin DOMAIN rec \/ rec.last_seen.kind # "iso"
Expired(rec) == ~CorruptStamp(rec) /\ now - rec.last_seen.t > max_age_hours
ToPurge == {k \in DOMAIN series_states : CorruptStamp(series_states[k]) \/ Expired(series_states[k])}
CleanupStep == Len(log') = Len(log) + 1 /\ log'[Len(log')].op = "cleanup"

C31_CleanupRemovesExactly ==
  [][CleanupStep =>
       series_states' = [k \in DOMAIN series_states \ ToPurge |-> series_states[k]]]_vars

\* cleanup_old_entries was called on a tracker holding a record whose
\* last_seen is null and one that is 49 hours old: the call raised and both
\* records are still there.
C31_Witness ==
  /\ log # <<>>
  /\ log[Len(log)].op = "cleanup"
  /\ log[Len(log)].raised
  /\ log[Len(log)].removed = {}
  /\ DOMAIN series_states = {TKey("S1"), TKey("S2")}
  /\ series_states[TKey("S1")] = [image_count |-> 10, last_seen |-> None, stable_since |-> None]
  /\ series_states[TKey("S2")] = [image_count |-> 10, last_seen |-> Iso(0), stable_since |-> None]
  /\ now = 49

\* Without a null last_seen the call removes exactly the expired and the
\* unparsable records.
C31_WithoutNull ==
  [][CleanupStep /\ ~cleanup_raises(series_states) =>
       series_states' = [k \in DOMAIN series_states \ ToPurge |-> series_states[k]]]_vars

(***************************************************************************)
(* C32: a record's stable_since is set exactly when the two most recent    *)
(* counts observed for its key were equal.                                 *)
(***************************************************************************)
LastTwoEqual(s) ==
  LET h == History(s) IN
  Len(h) >= 2 /\ h[Len(h)].count = h[Len(h) - 1].count

C32_StableSinceIffStable ==
  \A s \in TSeries :
    TKey(s) \in DOMAIN series_states =>
      ((series_states[TKey(s)].stable_since # None) <=> LastTwoEqual(s))

\* S1 was observed twice with 10 images, the second call returned True, and
\* the record's stable_since is still None.
C32_Witness ==
  /\ Len(log) = 2
  /\ \A i \in 1..2 : IsObserveOf("S1", log[i]) /\ log[i].count = 10
  /\ ~log[1].ret
  /\ log[2].ret
  /\ LastTwoEqual("S1")
  /\ series_states[TKey("S1")].stable_since = None

\* What the code keeps instead: stable_since is None in every record.
C32_StableSinceNeverSet ==
  \A k \in DOMAIN series_states : series_states[k].stable_since = None

(***************************************************************************)
(* C33: at every instant, also when the process dies in the middle of      *)
(* save, the tracker file is complete: it is absent or holds the whole     *)
(* JSON text of a tracker state, never an empty or partial text.           *)
(***************************************************************************)
C33_FileAlwaysComplete == tracker_file.kind \in {"absent", "json"}

\* The process died between open(..., 'w') and the end of the write: the
\* tracker held records, the file holds none of them and no earlier state.
C33_Witness ==
  /\ pc = "crashed"
  /\ tracker_file = Truncated
  /\ series_states # EmptyMap
  /\ load(tracker_file) = EmptyMap

\* What the code does give: while no save is under way and none has failed,
\* the file is absent or complete.
C33_CompleteBetweenSaves ==
  [][pc = "writing" /\ pc' = "idle" /\ tracker_file' # tracker_file =>
       tracker_file' = save(series_states)]_vars

(***************************************************************************)
(* C34: in an image-level transfer the move_image requests issued are for  *)
(* images the remote listed and the local node did not, each at most once  *)
(* and in the order of the remote's list; when the candidate's requests    *)
(* are over, every such image has been requested.                          *)
(***************************************************************************)
Range(seq) == {seq[i] : i \in 1..Len(seq)}
PositionIn(seq, x) == CHOOSE i \in 1..Len(seq) : seq[i] = x
AbsentLocally == Range(xfer.remote_image_uids) \ xfer.local_image_uids
RequestsOver == xfer.image /\ xfer.j > Len(xfer.missing)

C34_RequestsExactlyMissing ==
  xfer.image =>
    /\ Range(xfer.sent) \subseteq AbsentLocally
    /\ Range(xfer.sent) \cap xfer.local_image_uids = {}
    /\ Cardinality(Range(xfer.sent)) = Len(xfer.sent)
    /\ \A a, b \in 1..Len(xfer.sent) :
         a < b => PositionIn(xfer.remote_image_uids, xfer.sent[a]) <
                  PositionIn(xfer.remote_image_uids, xfer.sent[b])
    /\ RequestsOver => Range(xfer.sent) = AbsentLocally

\* The remote listed i2, i1 and the local node held i1: one request, for i2.
C34_Witness ==
  /\ RequestsOver
  /\ xfer.remote_image_uids = <<"i2", "i1">>
  /\ xfer.local_image_uids = {"i1"}
  /\ xfer.sent = <<"i2">>

\* The remote listed i2, i1 and the local node held neither: i2, then i1.
C34_WitnessOrder ==
  /\ RequestsOver
  /\ xfer.remote_image_uids = <<"i2", "i1">>
  /\ xfer.local_image_uids = {}
  /\ xfer.sent = <<"i2", "i1">>

(***************************************************************************)
(* C35: a remote series of more than 10 images of which 1 to 3 are missing *)
(* locally is in no transfer list, in any mode and in any call, and the    *)
(* tracker holds no record of it: update_series is not called for it.      *)
(***************************************************************************)
FewMissing(p) == p[2].num_images > 10 /\ Missing(p) >= 1 /\ Missing(p) <= 3

C35_FewMissingNeverCandidate ==
  \A p \in RemoteSeries :
    FewMissing(p) =>
      /\ \A i \in 1..Len(transfer_list) :
           ~(transfer_list[i][1] = p[1] /\ transfer_list[i][2].series_uid = p[2].series_uid)
      /\ make_key(CNode, p[1], p[2].series_uid) \notin DOMAIN series_states

\* Second call with a tracker: S1 has 20 images of which 3 are missing and S2
\* has 20 of which 1 is missing; neither is listed or tracked, while S3 of
\* study B, with all 20 missing, is listed and tracked.
C35_Witness ==
  /\ runs = 2
  /\ args.tracker
  /\ \E p \in RemoteSeries : p[2].num_images = 20 /\ Missing(p) = 3 /\ p[2].series_uid = "S1"
  /\ \E p \in RemoteSeries : p[2].num_images = 20 /\ Missing(p) = 1 /\ p[2].series_uid = "S2"
  /\ \E i \in 1..Len(transfer_list) : transfer_list[i][2].series_uid = "S3"
  /\ DOMAIN series_states = {make_key(CNode, "B", "S3")}

(***************************************************************************)
(* C36: a candidate counted as transferred had at least one move request   *)
(* issued for it, and every request issued for it returned success.        *)
(***************************************************************************)
C36_CountedOnlyAfterRequests ==
  /\ \A x \in hist.counted : x \in hist.requested
  /\ pc = "monitor" =>
       /\ xfer.requests >= 1
       /\ xfer.image => xfer.success_count = xfer.requests

\* The remote image query returned nothing: no request was issued, and the
\* candidate is counted with all its images and its record deleted.
C36_Witness ==
  /\ pc = "monitor"
  /\ xfer.image
  /\ xfer.remote_image_uids = <<>>
  /\ xfer.requests = 0
  /\ Here \in hist.counted \ hist.requested
  /\ stats.transferred_series = 1
  /\ stats.transferred_images = Candidate[2].num_images
  /\ make_key(SNode, Candidate[1], CandidateUid) \notin DOMAIN series_states

\* What the code does keep: every request issued for a counted candidate
\* returned success.
C36_EveryRequestSucceeded ==
  pc = "monitor" /\ xfer.image => xfer.success_count = xfer.requests

(***************************************************************************)
(* C37: the image total the executor returns is the sum of the remote      *)
(* image counts of the candidates of the list whose transfer reported      *)
(* success, whatever was missing locally, requested or seen to arrive.     *)
(***************************************************************************)
\* The candidates of this cycle's list accounted so far.
Accounted == IF pc \in {"next", "request", "await"} THEN idx - 1 ELSE idx

FailedStep == hist'.processed # hist.processed /\ hist'.counted = hist.counted
Failed == hist.processed \ hist.counted

C38_FailureKeepsRecord ==
  /\ [][FailedStep => series_states' = series_states]_vars
  /\ [](\A x \in Failed : \A o, o2 \in hist.observed :
          /\ o.cycle = x[1] /\ o.series = x[2]
          /\ o2.cycle = x[1] + 1 /\ o2.series = x[2]
          /\ o2.count = o.count
          => /\ o2.had
             /\ o2.ret
             /\ <<o2.cycle, o2.series>> \in hist.selected)

\* The move request for S1 failed in cycle 2; cycle 3 found its record with
\* the same count and selected it again.
C38_Witness ==
  /\ <<2, "S1">> \in Failed
  /\ <<2, "S1">> \in hist.requested
  /\ [cycle |-> 2, series |-> "S1", count |-> 100, had |-> TRUE, ret |-> TRUE] \in hist.observed
  /\ [cycle |-> 3, series |-> "S1", count |-> 100, had |-> TRUE, ret |-> TRUE] \in hist.observed
  /\ <<3, "S1">> \in hist.selected

(***************************************************************************)
(* C39: wait_for_series_completion returns True (complete or partial)      *)
(* only if a poll found more images on the local node than it held when    *)
(* the candidate was selected; when no image arrives it returns False.     *)
(***************************************************************************)
MonitorStep == pc = "monitor" /\ mon' # mon /\ mon'.pc = "done"

C39_SuccessOnlyIfArrival ==
  [][MonitorStep => (wait_returns(mon') => mon'.current_count > Candidate[3])]_vars

\* S1 had 40 of 50 images locally when selected; every poll of the wait
\* counted 40, and the wait returned True as a partial transfer.
C39_Witness ==
  /\ pc = "save"
  /\ Len(transfer_list) = 1
  /\ transfer_list[1][2] = DicomSeries("S1", 50)
  /\ transfer_list[1][3] = 40
  /\ [cycle |-> cycle_count, series |-> "S1", result |-> "partial"] \in hist.monitored
  /\ mon.result = "partial"
  /\ mon.current_count = 40
  /\ mon.polls = 4
  /\ wait_returns(mon)

\* What the code does keep: when no poll counts any image at all, the wait
\* returns False.
C39_FailureWhenNothingLocal ==
  [][MonitorStep /\ mon'.current_count = 0 => ~wait_returns(mon')]_vars

(***************************************************************************)
(* C40: when move_series or move_image returns, whatever it returns, the   *)
(* association it established has been released, so that no association    *)
(* is open between two calls and at most one is open at any time.          *)
(***************************************************************************)
C40_ReleasedBeforeReturn ==
  /\ \A i \in 1..Len(log) : log[i].released
  /\ OpenAssociations(xfer) <= 1

\* move_series returned False on a failure status with its association
\* open, and the next call has established a second one.
C40_Witness ==
  /\ Len(log) = 1
  /\ log[1] = [kind |-> "move_series", ret |-> FALSE, released |-> FALSE, open |-> 1]
  /\ xfer.phase = "responses"
  /\ xfer.established
  /\ OpenAssociations(xfer) = 2

\* What the code does keep: a call that returns True, or that ran out of
\* responses, has released its association.
C40_ReleasedOnSuccess ==
  \A i \in 1..Len(log) : log[i].ret => log[i].released

============================================================================
